---- MODULE Spec2Model ----
(***************************************************************************)
(* Model of the extraction orchestrator (src/extraction/orchestrator.ts),  *)
(* the job storage and HTTP routes (src/extraction/storage.ts) and the     *)
(* master references table (extraction/masterTable.ts).                    *)
(*                                                                         *)
(* Strings are sequences of one-character strings so that toLowerCase and  *)
(* normalizeText are computed, not assumed.                                *)
(***************************************************************************)
EXTENDS Integers, Sequences, FiniteSets, TLC

(***************************************************************************)
(* Bounds of the model.                                                    *)
(***************************************************************************)
\* number of POST /extract submissions
MaxJobs == 2
\* longest list handed to addToMasterTable under SpecMerge
MaxLen == 2
\* number of POST /enhance requests
MaxRuns == 2
\* number of extraction jobs and enhancement runs started under SpecStore
MaxTasks == 3

None == "none"

\* no entry in a Map, no file on disk, no value yet (null)
Absent == [status |-> "absent"]

(***************************************************************************)
(* Strings.                                                                *)
(***************************************************************************)
UpperCase ==
    <<"A", "B", "C", "D", "E", "F", "G", "H", "I", "J", "K", "L", "M",
      "N", "O", "P", "Q", "R", "S", "T", "U", "V", "W", "X", "Y", "Z">>

LowerCase ==
    <<"a", "b", "c", "d", "e", "f", "g", "h", "i", "j", "k", "l", "m",
      "n", "o", "p", "q", "r", "s", "t", "u", "v", "w", "x", "y", "z">>

LowerChar(c) ==
    IF \E i \in 1..Len(UpperCase) : UpperCase[i] = c
    THEN LowerCase[CHOOSE i \in 1..Len(UpperCase) : UpperCase[i] = c]
    ELSE c

\* String.prototype.toLowerCase
toLowerCase(s) == [i \in 1..Len(s) |-> LowerChar(s[i])]

\* \s of the regular expressions
IsSpace(c) == c \in {" ", "\n"}

\* \w of the regular expressions: [A-Za-z0-9_]
IsWord(c) ==
    \/ \E i \in 1..Len(UpperCase) : c = UpperCase[i] \/ c = LowerCase[i]
    \/ c \in {"0", "1", "2", "3", "4", "5", "6", "7", "8", "9", "_"}

\* .replace(/\s+/g, ' '): every maximal run of whitespace becomes one blank
RECURSIVE CollapseSpaces(_)
CollapseSpaces(s) ==
    IF s = <<>> THEN <<>>
    ELSE IF IsSpace(Head(s))
         THEN IF Len(s) > 1 /\ IsSpace(s[2])
              THEN CollapseSpaces(Tail(s))
              ELSE <<" ">> \o CollapseSpaces(Tail(s))
         ELSE <<Head(s)>> \o CollapseSpaces(Tail(s))

\* .replace(/[^\w\s]/g, '')
StripPunct(s) == SelectSeq(s, LAMBDA c : IsWord(c) \/ IsSpace(c))

RECURSIVE TrimLeft(_)
TrimLeft(s) ==
    IF s # <<>> /\ IsSpace(Head(s)) THEN TrimLeft(Tail(s)) ELSE s

RECURSIVE TrimRight(_)
TrimRight(s) ==
    IF s # <<>> /\ IsSpace(s[Len(s)]) THEN TrimRight(SubSeq(s, 1, Len(s) - 1)) ELSE s

\* String.prototype.trim
Trim(s) == TrimRight(TrimLeft(s))

\* masterTable.ts normalizeText
normalizeText(text) == Trim(StripPunct(CollapseSpaces(toLowerCase(text))))

(***************************************************************************)
(* Reference records (ExtractedReference, the fields the store reads).     *)
(***************************************************************************)
Ref(key, raw) ==
    [citationKey |-> key, referenceRaw |-> raw,
     firstAuthor |-> <<"a">>, title |-> <<"x">>]

\* citation keys the extractor can hand on: never empty
\* (llmBatchExtractor.ts keeps only entries with a citationKey)
CitationKeys == {<<"a">>, <<"A">>, <<"b">>}

\* raw reference texts: absent, plain, differently cased and punctuated,
\* and one that normalizes to the empty string
RawTexts == {<<>>, <<"x">>, <<"X", ".">>, <<".">>}

References == {Ref(k, r) : k \in CitationKeys, r \in RawTexts}

(***************************************************************************)
(* addToMasterTable: the deduplicating merge.                              *)
(***************************************************************************)
\* mutant: the keys of the loaded table are entered as written
existingKeysAsWritten(existing) ==
    {existing[i].citationKey :
        i \in {n \in 1..Len(existing) : existing[n].citationKey # <<>>}}

\* the two lookup sets built from the loaded table
existingKeysOf(existing) ==
    {toLowerCase(existing[i].citationKey) :
        i \in {n \in 1..Len(existing) : existing[n].citationKey # <<>>}}

existingRawTextsOf(existing) ==
    {normalizeText(existing[i].referenceRaw) :
        i \in {n \in 1..Len(existing) : existing[n].referenceRaw # <<>>}}

MergeStart(existing) ==
    [existing |-> existing,
     existingKeys |-> existingKeysOf(existing),
     existingRawTexts |-> existingRawTextsOf(existing),
     added |-> 0, duplicates |-> 0]

\* mutant: the citation key of the new record is looked up as written
isDuplicateAsWritten(st, newRef) ==
    \/ newRef.citationKey # <<>>
         /\ newRef.citationKey \in st.existingKeys
    \/ newRef.referenceRaw # <<>>
         /\ normalizeText(newRef.referenceRaw) \in st.existingRawTexts

isDuplicate(st, newRef) ==
    \/ newRef.citationKey # <<>>
         /\ toLowerCase(newRef.citationKey) \in st.existingKeys
    \/ newRef.referenceRaw # <<>>
         /\ normalizeText(newRef.referenceRaw) \in st.existingRawTexts

\* mutant: an appended record is not entered into the lookup sets
MergeStepForgetful(st, newRef) ==
    IF isDuplicate(st, newRef)
    THEN [st EXCEPT !.duplicates = @ + 1]
    ELSE [st EXCEPT !.existing = Append(@, newRef), !.added = @ + 1]

\* one iteration of the loop over newReferences
MergeStep(st, newRef) ==
    IF isDuplicate(st, newRef)
    THEN [st EXCEPT !.duplicates = @ + 1]
    ELSE [st EXCEPT
            !.existing = Append(@, newRef),
            !.added = @ + 1,
            !.existingKeys =
                IF newRef.citationKey # <<>>
                THEN @ \cup {toLowerCase(newRef.citationKey)} ELSE @,
            !.existingRawTexts =
                IF newRef.referenceRaw # <<>>
                THEN @ \cup {normalizeText(newRef.referenceRaw)} ELSE @]

RECURSIVE MergeLoop(_, _)
MergeLoop(st, newReferences) ==
    IF newReferences = <<>> THEN st
    ELSE MergeLoop(MergeStep(st, Head(newReferences)), Tail(newReferences))

\* the table addToMasterTable saves and the statistics it returns,
\* from the table it loaded
addToMasterTable(existing, newReferences) ==
    LET st == MergeLoop(MergeStart(existing), newReferences)
    IN  [table |-> st.existing,
         added |-> st.added,
         duplicates |-> st.duplicates,
         total |-> Len(st.existing)]


(***************************************************************************)
(* State.                                                                  *)
(***************************************************************************)
VARIABLES
    upload,        \* what each POST /extract request carried
    pc,            \* where each submission's handler / background task stands
    reply,         \* the HTTP reply to each POST /extract
    jobProgress,   \* orchestrator.ts: the in-memory Map jobId -> progress
    jobFiles,      \* storage.ts: extraction-results/<jobId>.json
    masterTable,   \* masterTable.ts: master-references/references.json
    references,    \* processExtraction: what extractAllReferencesWithLLM returned
    merged,        \* addToMasterTable: the table to save and its statistics
    job,           \* the job object loaded by loadJob (line 108 / line 56)
    err,           \* the exception the background task rejected with
    wroteStore,    \* whether the task's saveMasterTable wrote references.json
    newReferences, \* SpecMerge: the list a caller hands to addToMasterTable
    calls          \* SpecMerge: the consecutive calls made with that list

\* SpecStore: extraction merges, enhancement runs and DELETE /master together
VARIABLES
    xpc,             \* where each extraction job stands with the store
    xreferences,     \* processExtraction: the list handed to addToMasterTable
    xstats,          \* addToMasterTable: the table to save and its statistics
    enhancementJobs, \* enhancement orchestrator: the in-memory Map of jobs
    epc,             \* where each enhancement run's background task stands
    ereferences,     \* processEnhancement: the loaded (and mutated) collection
    needsEnhancement,\* processEnhancement: positions of the working set
    ei,              \* processEnhancement: the loop index i
    enhanced,        \* processEnhancement: the counter enhanced
    version,         \* history: number of writes of references.json so far
    loadedAt,        \* history: the version each job or run loaded
    savedAt,         \* history: the version each job's or run's save produced
    clearedAt,       \* history: the version the last DELETE /master produced
    eloaded,         \* history: the collection each run loaded, as loaded
    lookups          \* history: the findAffiliation calls of each run

storeVars == <<xpc, xreferences, xstats, enhancementJobs, epc, ereferences,
               needsEnhancement, ei, enhanced, version, loadedAt, savedAt,
               clearedAt, eloaded, lookups>>

\* SpecExtract: one call of extractAllReferencesWithLLM
VARIABLES
    fullText,    \* the text extractAllReferencesWithLLM was called with
    openai,      \* whether an OpenAI client was built (an API key is configured)
    frames,      \* the activations of extractInChunks, outermost first
    request,     \* the text of the model call in flight
    modelCalls,  \* history: the model calls made, with answer and returned list
    extracted    \* <<list>> once the outermost call has returned list

extractVars == <<fullText, openai, frames, request, modelCalls, extracted>>

\* SpecResolve: one call of findAffiliation
VARIABLES
    resolveArgs,   \* authorName, paperTitle, year of the call
    perplexityKey, \* whether config.PERPLEXITY_API_KEY is set
    rpc,           \* where the call stands
    tierLog,       \* history: the tiers queried, in order, with their outcome
    resolved       \* the AffiliationResult returned

resolveVars == <<resolveArgs, perplexityKey, rpc, tierLog, resolved>>

\* SpecMatch: one call of authorsMatch
VARIABLES
    matchArgs,  \* name1 and name2 of the call
    matched     \* <<b>> once the call has returned b

matchVars == <<matchArgs, matched>>

\* SpecUpdate: calls of updateReference
VARIABLES
    updateArgs,   \* citationKey and updates of the call
    upc,          \* where the call stands
    ureferences,  \* updateReference: the loaded collection, merged at index
    uloaded,      \* history: the collection as the call loaded it
    ureturned     \* <<outcome>> once the call has returned or rejected

updateVars == <<updateArgs, upc, ureferences, uloaded, ureturned>>

\* SpecScholar: one call of searchSemanticScholar
VARIABLES
    scholarArgs,   \* authorName and year of the call
    spc,           \* where the call stands
    papers,        \* data.data of the search response
    lookup,        \* <<paper, author>>: the author whose profile is awaited
    httpLog,       \* history: the delays awaited and the requests sent
    scholarResult  \* <<affiliation>> once the call has returned

scholarVars == <<scholarArgs, spc, papers, lookup, httpLog, scholarResult>>

\* the variables of the specifications of single calls
callVars == <<updateVars, scholarVars>>

\* what the store specification leaves alone besides the job variables
notStoreVars == <<extractVars, resolveVars, matchVars, callVars>>

otherVars == <<storeVars, extractVars, resolveVars, matchVars, callVars>>

vars == <<upload, pc, reply, jobProgress, jobFiles, masterTable, references,
          merged, job, err, wroteStore, newReferences, calls, otherVars>>

jobVars == <<upload, pc, reply, jobProgress, jobFiles, references, merged, job,
             err, wroteStore>>

Jobs == 1..MaxJobs

\* the job startExtraction builds (lines 33-40)
InitialJob ==
    [status |-> "processing", progress |-> 0, totalReferences |-> 0,
     extractedReferences |-> <<>>, error |-> None, completedAt |-> None]

\* lists extractAllReferencesWithLLM can return to processExtraction
LLMResults ==
    { <<>>,
      <<Ref(<<"a">>, <<>>)>>,
      <<Ref(<<"A">>, <<"x">>), Ref(<<"b">>, <<"X", ".">>)>> }

\* updateJobProgress (lines 140-148)
updateJobProgress(jp, jobId, status, progress, step) ==
    [jp EXCEPT ![jobId] =
        [status |-> status, progress |-> progress, currentStep |-> step]]

\* mutant: the failure handler resets the tracker's progress
catchProgressReset(jp, jobId) ==
    updateJobProgress(jp, jobId, "failed", 0, "error")

\* the rejection handler's tracker update (line 55)
catchProgress(jp, jobId) ==
    updateJobProgress(jp, jobId, "failed", 100, "error")

\* mutant: the rejection handler records the error but leaves the status
failedJobKeepsStatus(loaded, e) ==
    [loaded EXCEPT !.error = e, !.completedAt = "set"]

\* the job object the rejection handler builds from the loaded file (57-60)
failedJob(loaded, e) ==
    [loaded EXCEPT !.status = "failed", !.error = e, !.completedAt = "set"]

\* processExtraction throws e: its catch re-throws (131-134) and the .catch
\* handler of startExtraction runs (53-61) up to its await saveJob.  The
\* loadJob of line 56 reads the job's own file, which no other task writes,
\* so the read is taken in the same step.
Rejected(j, e, jp) ==
    /\ jobProgress' = catchProgress(jp, j)
    /\ err' = [err EXCEPT ![j] = e]
    /\ IF jobFiles[j] = Absent
       THEN /\ job' = job
            /\ pc' = [pc EXCEPT ![j] = "done"]
       ELSE /\ job' = [job EXCEPT ![j] = failedJob(jobFiles[j], e)]
            /\ pc' = [pc EXCEPT ![j] = "catchSave"]

JobsInit ==
    /\ upload = [j \in Jobs |-> None]
    /\ pc = [j \in Jobs |-> "idle"]
    /\ reply = [j \in Jobs |-> None]
    /\ jobProgress = [j \in Jobs |-> Absent]
    /\ jobFiles = [j \in Jobs |-> Absent]
    /\ references = [j \in Jobs |-> <<>>]
    /\ merged = [j \in Jobs |-> Absent]
    /\ job = [j \in Jobs |-> Absent]
    /\ err = [j \in Jobs |-> None]
    /\ wroteStore = [j \in Jobs |-> FALSE]

Runs == 1..MaxRuns

\* the tasks that write references.json: extraction jobs and enhancement runs
Writers == ({"extraction"} \X Jobs) \cup ({"enhancement"} \X Runs)

StoreInit ==
    /\ xpc = [j \in Jobs |-> "idle"]
    /\ xreferences = [j \in Jobs |-> <<>>]
    /\ xstats = [j \in Jobs |-> Absent]
    /\ enhancementJobs = [e \in Runs |-> Absent]
    /\ epc = [e \in Runs |-> "idle"]
    /\ ereferences = [e \in Runs |-> <<>>]
    /\ needsEnhancement = [e \in Runs |-> <<>>]
    /\ ei = [e \in Runs |-> 0]
    /\ enhanced = [e \in Runs |-> 0]
    /\ version = 1
    /\ loadedAt = [w \in Writers |-> 0]
    /\ savedAt = [w \in Writers |-> 0]
    /\ clearedAt = 0
    /\ eloaded = [e \in Runs |-> <<>>]
    /\ lookups = [e \in Runs |-> <<>>]

ExtractInit ==
    /\ fullText = Absent
    /\ openai = TRUE
    /\ frames = <<>>
    /\ request = Absent
    /\ modelCalls = <<>>
    /\ extracted = <<>>

ResolveInit ==
    /\ resolveArgs = Absent
    /\ perplexityKey = FALSE
    /\ rpc = "idle"
    /\ tierLog = <<>>
    /\ resolved = Absent

MatchInit ==
    /\ matchArgs = Absent
    /\ matched = <<>>

ScholarInit ==
    /\ scholarArgs = Absent
    /\ spc = "idle"
    /\ papers = <<>>
    /\ lookup = <<>>
    /\ httpLog = <<>>
    /\ scholarResult = <<>>

UpdateInit ==
    /\ updateArgs = Absent
    /\ upc = "idle"
    /\ ureferences = <<>>
    /\ uloaded = <<>>
    /\ ureturned = <<>>

Init ==
    /\ JobsInit
    /\ masterTable = <<>>
    /\ newReferences = <<>>
    /\ calls = <<>>
    /\ StoreInit
    /\ ExtractInit
    /\ ResolveInit
    /\ MatchInit
    /\ UpdateInit
    /\ ScholarInit

(***************************************************************************)
(* POST /extract (storage.ts 128-150) and startExtraction up to its        *)
(* await saveJob (orchestrator.ts 24-43).                                  *)
(***************************************************************************)
\* what a request carries: no file part; a body request.file()/toBuffer()
\* cannot read; a file that is empty or not a PDF (pdf-parse rejects it);
\* a PDF
Uploads == {"nofile", "badform", "garbage", "pdf"}

PostExtract(j) ==
    /\ pc[j] = "idle"
    /\ \A i \in Jobs : i < j => pc[i] # "idle"
    /\ \E u \in Uploads :
        /\ upload' = [upload EXCEPT ![j] = u]
        /\ CASE u = "nofile" ->
                  \* request.file() returned nothing: 400, line 133
                  /\ reply' = [reply EXCEPT ![j] = "400"]
                  /\ pc' = [pc EXCEPT ![j] = "replied"]
             [] u = "badform" ->
                  \* request.file() / toBuffer() threw: caught at 143, 500
                  /\ reply' = [reply EXCEPT ![j] = "500"]
                  /\ pc' = [pc EXCEPT ![j] = "replied"]
             [] OTHER ->
                  \* startExtraction({ pdfBuffer }) runs to await saveJob(job)
                  /\ reply' = reply
                  /\ pc' = [pc EXCEPT ![j] = "saveInitial"]
    /\ UNCHANGED <<jobProgress, jobFiles, masterTable, references, merged, job,
                   err, wroteStore, newReferences, calls, otherVars>>

\* saveJob(job) at line 43 succeeds; lines 46-65 and the synchronous start of
\* processExtraction (72-83) follow without a suspension; the route replies.
\* The route always passes a pdfBuffer, so line 80 does not throw.
SaveInitialOk(j) ==
    /\ pc[j] = "saveInitial"
    /\ jobFiles' = [jobFiles EXCEPT ![j] = InitialJob]
    /\ reply' = [reply EXCEPT ![j] = "jobId"]
    /\ jobProgress' =
         updateJobProgress(
             updateJobProgress(jobProgress, j, "processing", 0, "initializing"),
             j, "processing", 10, "extracting text from PDF")
    /\ pc' = [pc EXCEPT ![j] = "extractPdfSmart"]
    /\ UNCHANGED <<upload, masterTable, references, merged, job, err,
                   wroteStore, newReferences, calls, otherVars>>

\* saveJob(job) at line 43 throws (storage.ts 31-34): startExtraction rejects,
\* the route's catch replies 500 (storage.ts 143-149)
SaveInitialFails(j) ==
    /\ pc[j] = "saveInitial"
    /\ reply' = [reply EXCEPT ![j] = "500"]
    /\ pc' = [pc EXCEPT ![j] = "threw"]
    /\ UNCHANGED <<upload, jobProgress, jobFiles, masterTable, references,
                   merged, job, err, wroteStore, newReferences, calls, otherVars>>

(***************************************************************************)
(* processExtraction (orchestrator.ts 71-135), one action per resumption.  *)
(***************************************************************************)
\* extractPdfSmart returned the pages: lines 84-93
ExtractPdfReturns(j) ==
    /\ pc[j] = "extractPdfSmart"
    /\ upload[j] = "pdf"
    /\ jobProgress' =
         updateJobProgress(
             updateJobProgress(jobProgress, j, "processing", 30,
                               "text extraction complete"),
             j, "processing", 40, "LLM processing references")
    /\ pc' = [pc EXCEPT ![j] = "extractAllReferencesWithLLM"]
    /\ UNCHANGED <<upload, reply, jobFiles, masterTable, references, merged,
                   job, err, wroteStore, newReferences, calls, otherVars>>

\* extractPdfSmart threw (pdf-parse rejects the buffer)
ExtractPdfThrows(j) ==
    /\ pc[j] = "extractPdfSmart"
    /\ Rejected(j, "pdf-parse failed", jobProgress)
    /\ UNCHANGED <<upload, reply, jobFiles, masterTable, references, merged,
                   wroteStore, newReferences, calls, otherVars>>

\* extractAllReferencesWithLLM returned (it never throws: 181-184): lines 95-104
\* up to the first suspension of addToMasterTable
LLMReturns(j) ==
    /\ pc[j] = "extractAllReferencesWithLLM"
    /\ \E refs \in LLMResults :
        /\ references' = [references EXCEPT ![j] = refs]
        /\ IF Len(refs) = 0
           THEN Rejected(j, "No references were extracted from the text",
                         jobProgress)
           ELSE /\ jobProgress' = updateJobProgress(jobProgress, j, "processing",
                                                    90, "extraction complete")
                /\ pc' = [pc EXCEPT ![j] = "loadMasterTable"]
                /\ UNCHANGED <<err, job>>
    /\ UNCHANGED <<upload, reply, jobFiles, masterTable, merged,
                   wroteStore, newReferences, calls, otherVars>>

\* addToMasterTable: loadMasterTable returned; lines 102-140 run to the
\* await inside saveMasterTable
MasterTableLoaded(j) ==
    /\ pc[j] = "loadMasterTable"
    /\ merged' = [merged EXCEPT ![j] = addToMasterTable(masterTable, references[j])]
    /\ pc' = [pc EXCEPT ![j] = "saveMasterTable"]
    /\ UNCHANGED <<upload, reply, jobProgress, jobFiles, masterTable,
                   references, job, err, wroteStore, newReferences, calls, otherVars>>

\* mutant: totalReferences is the size of the extracted list
completedJobCountsExtracted(loaded, masterStats, refs) ==
    [loaded EXCEPT
        !.totalReferences = Len(refs),
        !.extractedReferences = refs,
        !.status = "completed",
        !.progress = 100,
        !.completedAt = "set"]

\* the job object processExtraction builds from the loaded file (110-114)
completedJob(loaded, masterStats, refs) ==
    [loaded EXCEPT
        !.totalReferences = masterStats.total,
        !.extractedReferences = refs,
        !.status = "completed",
        !.progress = 100,
        !.completedAt = "set"]

\* mutant: the tracker is marked completed (line 118) before the job is saved
MasterTableSavedMarksEarly(j) ==
    /\ pc[j] = "saveMasterTable"
    /\ masterTable' = merged[j].table
    /\ wroteStore' = [wroteStore EXCEPT ![j] = TRUE]
    /\ job' = [job EXCEPT ![j] =
                completedJob(jobFiles[j], merged[j], references[j])]
    /\ jobProgress' = updateJobProgress(jobProgress, j, "completed", 100, "done")
    /\ pc' = [pc EXCEPT ![j] = "saveJob"]
    /\ UNCHANGED <<upload, reply, jobFiles, references, merged, err,
                   newReferences, calls, otherVars>>

\* saveMasterTable wrote references.json, the CSV and the workbook;
\* addToMasterTable returns its statistics and processExtraction runs
\* lines 105-115 up to the await saveJob.  The loadJob of line 108 reads the
\* job's own file, which no other task writes, so the read is taken in the
\* same step.
MasterTableSaved(j) ==
    /\ pc[j] = "saveMasterTable"
    /\ masterTable' = merged[j].table
    /\ wroteStore' = [wroteStore EXCEPT ![j] = TRUE]
    /\ IF jobFiles[j] = Absent
       THEN \* no job file: the result is not persisted, lines 118-129 run
            /\ job' = job
            /\ jobProgress' = updateJobProgress(jobProgress, j, "completed", 100, "done")
            /\ pc' = [pc EXCEPT ![j] = "done"]
       ELSE /\ job' = [job EXCEPT ![j] =
                        completedJob(jobFiles[j], merged[j], references[j])]
            /\ jobProgress' = jobProgress
            /\ pc' = [pc EXCEPT ![j] = "saveJob"]
    /\ UNCHANGED <<upload, reply, jobFiles, references, merged, err,
                   newReferences, calls, otherVars>>

\* saveMasterTable threw before references.json was written (line 58)
MasterTableSaveFails(j) ==
    /\ pc[j] = "saveMasterTable"
    /\ Rejected(j, "write failed", jobProgress)
    /\ UNCHANGED <<upload, reply, jobFiles, masterTable, references, merged,
                   wroteStore, newReferences, calls, otherVars>>

\* saveMasterTable threw after references.json was written (lines 79-83)
MasterTableExportFails(j) ==
    /\ pc[j] = "saveMasterTable"
    /\ masterTable' = merged[j].table
    /\ wroteStore' = [wroteStore EXCEPT ![j] = TRUE]
    /\ Rejected(j, "export failed", jobProgress)
    /\ UNCHANGED <<upload, reply, jobFiles, references, merged,
                   newReferences, calls, otherVars>>

\* saveJob(job) at 115 wrote the file
JobSaved(j) ==
    /\ pc[j] = "saveJob"
    /\ jobFiles' = [jobFiles EXCEPT ![j] = job[j]]
    /\ pc' = [pc EXCEPT ![j] = "markCompleted"]
    /\ UNCHANGED <<upload, reply, jobProgress, masterTable, references, merged,
                   job, err, wroteStore, newReferences, calls, otherVars>>

\* saveJob(job) at 115 threw
JobSaveFails(j) ==
    /\ pc[j] = "saveJob"
    /\ Rejected(j, "write failed", jobProgress)
    /\ UNCHANGED <<upload, reply, jobFiles, masterTable, references, merged,
                   wroteStore, newReferences, calls, otherVars>>

\* lines 118-129
MarkCompleted(j) ==
    /\ pc[j] = "markCompleted"
    /\ jobProgress' = updateJobProgress(jobProgress, j, "completed", 100, "done")
    /\ pc' = [pc EXCEPT ![j] = "done"]
    /\ UNCHANGED <<upload, reply, jobFiles, masterTable, references, merged,
                   job, err, wroteStore, newReferences, calls, otherVars>>

(***************************************************************************)
(* The rejection handler of startExtraction (orchestrator.ts 53-63).       *)
(***************************************************************************)
\* saveJob(failedJob) at 61 wrote the file
CatchSaved(j) ==
    /\ pc[j] = "catchSave"
    /\ jobFiles' = [jobFiles EXCEPT ![j] = job[j]]
    /\ pc' = [pc EXCEPT ![j] = "done"]
    /\ UNCHANGED <<upload, reply, jobProgress, masterTable, references, merged,
                   job, err, wroteStore, newReferences, calls, otherVars>>

\* saveJob(failedJob) at 61 threw: nothing catches it
CatchSaveFails(j) ==
    /\ pc[j] = "catchSave"
    /\ pc' = [pc EXCEPT ![j] = "unhandledRejection"]
    /\ UNCHANGED <<upload, reply, jobProgress, jobFiles, masterTable,
                   references, merged, job, err, wroteStore, newReferences, calls, otherVars>>

(***************************************************************************)
(* DELETE /master: clearMasterTable (masterTable.ts 182-186).              *)
(***************************************************************************)
clearMasterTable ==
    /\ masterTable # <<>>
    /\ masterTable' = <<>>

Next ==
    \E j \in Jobs :
        \/ PostExtract(j)
        \/ SaveInitialOk(j)
        \/ SaveInitialFails(j)
        \/ ExtractPdfReturns(j)
        \/ ExtractPdfThrows(j)
        \/ LLMReturns(j)
        \/ MasterTableLoaded(j)
        \/ MasterTableSaved(j)
        \/ MasterTableSaveFails(j)
        \/ MasterTableExportFails(j)
        \/ JobSaved(j)
        \/ JobSaveFails(j)
        \/ MarkCompleted(j)
        \/ CatchSaved(j)
        \/ CatchSaveFails(j)

Spec == Init /\ [][Next]_vars


(***************************************************************************)
(* What a poll reads.                                                      *)
(***************************************************************************)
\* getProgress (orchestrator.ts 153-159); Absent is null
getProgress(jobId) == jobProgress[jobId]

\* getResult (orchestrator.ts 164-166): loadJob of the job's file
getResult(jobId) == jobFiles[jobId]

\* GET /status/:jobId (storage.ts 153-172)
statusRoute(jobId) ==
    IF jobFiles[jobId] = Absent
    THEN [code |-> 404]
    ELSE [code |-> 200,
          status |-> jobFiles[jobId].status,
          progress |-> jobFiles[jobId].progress,
          totalReferences |-> jobFiles[jobId].totalReferences,
          extractedCount |-> Len(jobFiles[jobId].extractedReferences),
          currentStep |-> IF getProgress(jobId) = Absent THEN "unknown"
                          ELSE getProgress(jobId).currentStep,
          error |-> jobFiles[jobId].error]

(***************************************************************************)
(* The store used on its own: a caller assembles a list and calls          *)
(* addToMasterTable with it, once or twice in a row; DELETE /master may    *)
(* clear the table.  Every list is one the orchestrator can pass: not      *)
(* empty (orchestrator.ts 95-97), every citationKey non-empty.             *)
(***************************************************************************)
Collect(r) ==
    /\ IF calls # <<>>
       THEN newReferences' = <<r>>
       ELSE /\ Len(newReferences) < MaxLen
            /\ newReferences' = Append(newReferences, r)
    /\ calls' = <<>>
    /\ UNCHANGED <<jobVars, masterTable, otherVars>>

\* one whole call of addToMasterTable with no other store access in between
CallAddToMasterTable ==
    /\ newReferences # <<>>
    /\ Len(calls) < 2
    /\ LET masterStats == addToMasterTable(masterTable, newReferences)
       IN  /\ masterTable' = masterStats.table
           /\ calls' = Append(calls, [before |-> masterTable,
                                      result |-> masterStats])
    /\ UNCHANGED <<jobVars, newReferences, otherVars>>

\* DELETE /master; calls keeps only calls with nothing in between
ClearMaster ==
    /\ clearMasterTable
    /\ calls' = <<>>
    /\ UNCHANGED <<jobVars, newReferences, otherVars>>

MergeNext ==
    \/ \E r \in References : Collect(r)
    \/ CallAddToMasterTable
    \/ ClearMaster

SpecMerge == Init /\ [][MergeNext]_vars

(***************************************************************************)
(* updateReference (masterTable.ts 154-177), one action per resumption.    *)
(* The updates are the own properties of the object, in order, as pairs of *)
(* a field name and a value.                                               *)
(***************************************************************************)
\* mutant: the keys are compared as written
findIndexExact(refs, citationKey) ==
    LET found == {i \in 1..Len(refs) : refs[i].citationKey = citationKey}
    IN  IF found = {} THEN 0
        ELSE CHOOSE i \in found : \A k \in found : i <= k

\* references.findIndex(ref => ref.citationKey.toLowerCase() ===
\* citationKey.toLowerCase()), counted from 1; 0 is -1
findIndex(refs, citationKey) ==
    LET found == {i \in 1..Len(refs) :
                     toLowerCase(refs[i].citationKey) = toLowerCase(citationKey)}
    IN  IF found = {} THEN 0
        ELSE CHOOSE i \in found : \A k \in found : i <= k

\* { ...ref, ...updates } (lines 167-170)
spread(ref, updates) ==
    LET fields == {updates[i][1] : i \in 1..Len(updates)}
        last(f) == CHOOSE i \in 1..Len(updates) :
                       /\ updates[i][1] = f
                       /\ \A k \in 1..Len(updates) : updates[k][1] = f => k <= i
    IN  [f \in DOMAIN ref \cup fields |->
            IF f \in fields THEN updates[last(f)][2] ELSE ref[f]]

\* keys a caller may pass: of a stored record, in another case, of none
UpdateKeys == {<<"a">>, <<"A">>, <<"b">>, <<"c">>}

\* partial records a caller may pass
UpdateFields ==
    { <<>>,
      << <<"title", <<"y">>>> >>,
      << <<"firstAuthorAffiliation", <<"M">>>> >>,
      << <<"citationKey", <<"A">>>>, <<"title", <<"y">>>> >> }

\* lists an extraction hands to addToMasterTable
AddedLists ==
    { <<Ref(<<"a">>, <<>>)>>,
      <<Ref(<<"A">>, <<"x">>), Ref(<<"b">>, <<"y">>)>>,
      <<Ref(<<"b">>, <<"x">>), Ref(<<"B">>, <<"x">>), Ref(<<"c">>, <<>>)>> }

\* a whole call of addToMasterTable on the empty store
AddedToMasterTable ==
    /\ masterTable = <<>>
    /\ \E refs \in AddedLists :
          masterTable' = addToMasterTable(masterTable, refs).table
    /\ UNCHANGED <<jobVars, newReferences, calls, storeVars, extractVars,
                   resolveVars, matchVars, callVars>>

\* updateReference(citationKey, updates) is called: it runs to the await of
\* loadMasterTable (line 158)
UpdateCalled ==
    /\ upc = "idle"
    /\ \E citationKey \in UpdateKeys, updates \in UpdateFields :
          updateArgs' = [citationKey |-> citationKey, updates |-> updates]
    /\ upc' = "loadMasterTable"
    /\ ureferences' = <<>>
    /\ uloaded' = <<>>
    /\ ureturned' = <<>>
    /\ UNCHANGED <<jobVars, masterTable, newReferences, calls, storeVars,
                   extractVars, resolveVars, matchVars, scholarVars>>

\* loadMasterTable returned: lines 159-172, to the return false or to the
\* await inside saveMasterTable
UpdateLoaded ==
    /\ upc = "loadMasterTable"
    /\ LET index == findIndex(masterTable, updateArgs.citationKey)
       IN  /\ uloaded' = masterTable
           /\ IF index = 0
              THEN /\ ureferences' = masterTable
                   /\ ureturned' = <<"false">>
                   /\ upc' = "idle"
              ELSE /\ ureferences' =
                        [masterTable EXCEPT
                            ![index] = spread(masterTable[index],
                                              updateArgs.updates)]
                   /\ ureturned' = <<>>
                   /\ upc' = "saveMasterTable"
    /\ UNCHANGED updateArgs
    /\ UNCHANGED <<jobVars, masterTable, newReferences, calls, storeVars,
                   extractVars, resolveVars, matchVars, scholarVars>>

\* saveMasterTable wrote references.json and the exports: lines 173-175
UpdateSaved ==
    /\ upc = "saveMasterTable"
    /\ masterTable' = ureferences
    /\ ureturned' = <<"true">>
    /\ upc' = "idle"
    /\ UNCHANGED <<updateArgs, ureferences, uloaded>>
    /\ UNCHANGED <<jobVars, newReferences, calls, storeVars, extractVars,
                   resolveVars, matchVars, scholarVars>>

\* saveMasterTable threw before references.json was written: the call rejects
UpdateSaveFails ==
    /\ upc = "saveMasterTable"
    /\ ureturned' = <<"rejected">>
    /\ upc' = "idle"
    /\ UNCHANGED <<updateArgs, ureferences, uloaded>>
    /\ UNCHANGED <<jobVars, masterTable, newReferences, calls, storeVars,
                   extractVars, resolveVars, matchVars, scholarVars>>

\* saveMasterTable threw after references.json was written: the call rejects
UpdateExportFails ==
    /\ upc = "saveMasterTable"
    /\ masterTable' = ureferences
    /\ ureturned' = <<"rejected">>
    /\ upc' = "idle"
    /\ UNCHANGED <<updateArgs, ureferences, uloaded>>
    /\ UNCHANGED <<jobVars, newReferences, calls, storeVars, extractVars,
                   resolveVars, matchVars, scholarVars>>

\* DELETE /master at any moment
UpdateStoreCleared ==
    /\ clearMasterTable
    /\ UNCHANGED <<jobVars, newReferences, calls, storeVars, extractVars,
                   resolveVars, matchVars, callVars>>

UpdateNext ==
    \/ AddedToMasterTable
    \/ UpdateCalled
    \/ UpdateLoaded
    \/ UpdateSaved
    \/ UpdateSaveFails
    \/ UpdateExportFails
    \/ UpdateStoreCleared

SpecUpdate == Init /\ [][UpdateNext]_vars

(***************************************************************************)
(* extractAllReferencesWithLLM: the mapping of the model's entries and the *)
(* filter (llmBatchExtractor.ts 154-179).  A field the model left out and  *)
(* an empty string are both <<>>: the code tests them with || and &&.      *)
(***************************************************************************)
\* a || b on strings
Or(a, b) == IF a # <<>> THEN a ELSE b

\* String.prototype.includes
Includes(s, t) ==
    \E i \in 1..(Len(s) - Len(t) + 1) : SubSeq(s, i, i + Len(t) - 1) = t

DigitChar(n) ==
    CASE n = 0 -> "0" [] n = 1 -> "1" [] n = 2 -> "2" [] n = 3 -> "3"
      [] n = 4 -> "4" [] n = 5 -> "5" [] n = 6 -> "6" [] n = 7 -> "7"
      [] n = 8 -> "8" [] n = 9 -> "9"

\* `Ref-${index + 1}`, index + 1 below ten
DefaultKey(index) == <<"R", "e", "f", "-", DigitChar(index + 1)>>

\* an entry of the model's array: the fields the mapping reads
ModelEntry(citationKey, key, firstAuthor, title) ==
    [citationKey |-> citationKey, key |-> key,
     firstAuthor |-> firstAuthor, first_author |-> <<>>, title |-> title]

\* the callback of referencesArray.map (155-169); firstAuthorAffiliation is
\* not set by the mapping, <<>> stands for undefined
mapReference(ref, index) ==
    [citationKey |-> Or(Or(ref.citationKey, ref.key), DefaultKey(index)),
     referenceRaw |-> <<>>,
     firstAuthor |-> Or(ref.firstAuthor, ref.first_author),
     title |-> ref.title,
     firstAuthorAffiliation |-> <<>>]

unknown == <<"u", "n", "k", "n", "o", "w", "n">>

\* mutant: the filter keeps every mapped entry
isValidAlways(ref) == TRUE

\* the callback of references.filter (172-176)
isValid(ref) ==
    /\ ref.citationKey # <<>>
    /\ ~ Includes(toLowerCase(ref.citationKey), unknown)
    /\ (ref.title # <<>> \/ ref.firstAuthor # <<>>)

\* lines 155-176: the list returned for a parsed array of entries
validReferences(referencesArray) ==
    SelectSeq([p \in 1..Len(referencesArray) |->
                  mapReference(referencesArray[p], p - 1)],
              isValid)

(***************************************************************************)
(* The store shared by extraction jobs, enhancement runs and DELETE        *)
(* /master.  An extraction job is followed from the return of the model    *)
(* extraction to the end of addToMasterTable (orchestrator.ts 93-104); an  *)
(* enhancement run is followed whole.  Every access of references.json is  *)
(* a step of its own, so that the accesses of different tasks interleave   *)
(* as the event loop lets them.                                            *)
(***************************************************************************)
\* arrays of entries the model returns to the extraction jobs
StoreModelOutputs ==
    { <<ModelEntry(<<"a">>, <<>>, <<"a">>, <<"x">>)>>,
      <<ModelEntry(<<"A">>, <<>>, <<>>, <<"x">>),
        ModelEntry(<<"b">>, <<>>, <<>>, <<>>)>>,
      <<ModelEntry(<<>>, <<"b">>, <<"a">>, <<>>),
        ModelEntry(<<"A">>, <<>>, <<"a">>, <<"x">>)>>,
      <<ModelEntry(<<>>, <<>>, <<>>, <<>>)>> }

\* the jobs and runs started so far
Started ==
    Cardinality({j \in Jobs : xpc[j] # "idle"})
        + Cardinality({e \in Runs : epc[e] # "idle"})

\* extractAllReferencesWithLLM returned to processExtraction (93-104): with no
\* valid reference the job fails before it touches the store
ExtractionReturns(j) ==
    /\ xpc[j] = "idle"
    /\ \A i \in Jobs : i < j => xpc[i] # "idle"
    /\ Started < MaxTasks
    /\ \E referencesArray \in StoreModelOutputs :
        LET refs == validReferences(referencesArray)
        IN  /\ xreferences' = [xreferences EXCEPT ![j] = refs]
            /\ xpc' = [xpc EXCEPT ![j] =
                         IF Len(refs) = 0 THEN "failed" ELSE "loadMasterTable"]
    /\ UNCHANGED <<xstats, enhancementJobs, epc, ereferences, needsEnhancement,
                   ei, enhanced, version, loadedAt, savedAt, clearedAt>>
    /\ UNCHANGED <<eloaded, lookups>>
    /\ UNCHANGED <<jobVars, masterTable, newReferences, calls, notStoreVars>>

\* addToMasterTable: loadMasterTable returned; lines 102-140 run to the await
\* inside saveMasterTable
StoreLoaded(j) ==
    /\ xpc[j] = "loadMasterTable"
    /\ xstats' = [xstats EXCEPT ![j] = addToMasterTable(masterTable, xreferences[j])]
    /\ loadedAt' = [loadedAt EXCEPT ![<<"extraction", j>>] = version]
    /\ xpc' = [xpc EXCEPT ![j] = "saveMasterTable"]
    /\ UNCHANGED <<xreferences, enhancementJobs, epc, ereferences,
                   needsEnhancement, ei, enhanced, version, savedAt, clearedAt>>
    /\ UNCHANGED <<eloaded, lookups>>
    /\ UNCHANGED <<jobVars, masterTable, newReferences, calls, notStoreVars>>

\* saveMasterTable wrote references.json; the job goes on to completion
\* without touching the store again (orchestrator.ts 105-118)
StoreSaved(j) ==
    /\ xpc[j] = "saveMasterTable"
    /\ masterTable' = xstats[j].table
    /\ version' = version + 1
    /\ savedAt' = [savedAt EXCEPT ![<<"extraction", j>>] = version + 1]
    /\ xpc' = [xpc EXCEPT ![j] = "completed"]
    /\ UNCHANGED <<xreferences, xstats, enhancementJobs, epc, ereferences,
                   needsEnhancement, ei, enhanced, loadedAt, clearedAt>>
    /\ UNCHANGED <<eloaded, lookups>>
    /\ UNCHANGED <<jobVars, newReferences, calls, notStoreVars>>

\* the job startEnhancement builds
InitialEnhancementJob ==
    [status |-> "processing", progress |-> 0, totalReferences |-> 0,
     processedReferences |-> 0, enhancedReferences |-> 0,
     error |-> None, completedAt |-> None]

\* POST /enhance: startEnhancement, and processEnhancement up to its
\* await loadMasterTable()
StartEnhancement(e) ==
    /\ epc[e] = "idle"
    /\ \A i \in Runs : i < e => epc[i] # "idle"
    /\ Started < MaxTasks
    /\ enhancementJobs' = [enhancementJobs EXCEPT ![e] = InitialEnhancementJob]
    /\ epc' = [epc EXCEPT ![e] = "loadMasterTable"]
    /\ UNCHANGED <<xpc, xreferences, xstats, ereferences, needsEnhancement, ei,
                   enhanced, version, loadedAt, savedAt, clearedAt>>
    /\ UNCHANGED <<eloaded, lookups>>
    /\ UNCHANGED <<jobVars, masterTable, newReferences, calls, notStoreVars>>

\* mutant: every record without an affiliation is selected
needsEnhancementAll(refs) ==
    SelectSeq([p \in 1..Len(refs) |-> p],
              LAMBDA p : refs[p].firstAuthorAffiliation = <<>>)

\* the filter that selects the working set, as positions of the loaded
\* collection: the working set holds the same objects as the collection
needsEnhancementOf(refs) ==
    SelectSeq([p \in 1..Len(refs) |-> p],
              LAMBDA p : refs[p].firstAuthorAffiliation = <<>>
                         /\ refs[p].firstAuthor # <<>>)

\* mutant: the progress is the share of the records still to process
progressOfRest(done, n) == (200 * (n - done) + n) \div (2 * n)

\* Math.round(((i + 1) / n) * 100), done being i + 1
progressOf(done, n) == (200 * done + n) \div (2 * n)

\* mutant: a failure leaves no error message
enhancementFailedSilently(enhancementJob, message) ==
    [enhancementJob EXCEPT !.status = "failed", !.completedAt = "set"]

\* the catch of processEnhancement and the rejection handler of
\* startEnhancement: both mark the job failed
enhancementFailed(enhancementJob, message) ==
    [enhancementJob EXCEPT !.status = "failed", !.error = message, !.completedAt = "set"]

enhancementCompleted(enhancementJob) ==
    [enhancementJob EXCEPT !.status = "completed", !.progress = 100, !.completedAt = "set"]

\* a call of findAffiliation for the record at a position of the collection
Lookup(position) ==
    [position |-> position, state |-> "pending", affiliation |-> <<>>]

\* loadMasterTable returned: up to the first await findAffiliation, or to
\* the end of the run when there is nothing to do
EnhancementLoaded(e) ==
    /\ epc[e] = "loadMasterTable"
    /\ ereferences' = [ereferences EXCEPT ![e] = masterTable]
    /\ eloaded' = [eloaded EXCEPT ![e] = masterTable]
    /\ loadedAt' = [loadedAt EXCEPT ![<<"enhancement", e>>] = version]
    /\ LET loaded == [enhancementJobs[e] EXCEPT !.totalReferences = Len(masterTable)]
           needs == needsEnhancementOf(masterTable)
       IN  IF Len(masterTable) = 0
           THEN /\ enhancementJobs' = [enhancementJobs EXCEPT ![e] =
                    enhancementFailed(loaded, "No references found in master table")]
                /\ epc' = [epc EXCEPT ![e] = "done"]
                /\ UNCHANGED <<needsEnhancement, ei, lookups>>
           ELSE IF Len(needs) = 0
           THEN /\ enhancementJobs' = [enhancementJobs EXCEPT ![e] =
                                          enhancementCompleted(loaded)]
                /\ epc' = [epc EXCEPT ![e] = "done"]
                /\ UNCHANGED <<needsEnhancement, ei, lookups>>
           ELSE /\ enhancementJobs' = [enhancementJobs EXCEPT ![e] = loaded]
                /\ needsEnhancement' = [needsEnhancement EXCEPT ![e] = needs]
                /\ ei' = [ei EXCEPT ![e] = 0]
                /\ lookups' = [lookups EXCEPT ![e] = <<Lookup(needs[1])>>]
                /\ epc' = [epc EXCEPT ![e] = "findAffiliation"]
    /\ UNCHANGED <<xpc, xreferences, xstats, enhanced, version, savedAt, clearedAt>>
    /\ UNCHANGED <<jobVars, masterTable, newReferences, calls, notStoreVars>>

\* what findAffiliation can resolve to for a record: null (<<>>) when the
\* author or the title is empty, else null or an affiliation
affiliationsFor(authorName, paperTitle) ==
    IF authorName = <<>> \/ paperTitle = <<>> THEN {<<>>} ELSE {<<>>, <<"M">>}

\* mutant: the last record of the collection is updated
refIndexOfLast(refs, ref) == Len(refs)

\* mutant: the first record of the collection is updated
refIndexOfFirst(refs, ref) == 1

\* references.findIndex by exact citation key: 0 stands for -1
refIndexOf(refs, ref) ==
    LET hits == {p \in 1..Len(refs) :
                    /\ refs[p].citationKey # <<>> /\ ref.citationKey # <<>>
                    /\ refs[p].citationKey = ref.citationKey}
    IN  IF hits = {} THEN 0 ELSE CHOOSE p \in hits : \A q \in hits : p <= q

\* mutant: every iteration writes the updated collection to references.json
AffiliationReturnedSaving(e) ==
    /\ epc[e] = "findAffiliation"
    /\ LET refs == ereferences[e]
           n == Len(needsEnhancement[e])
           ref == refs[needsEnhancement[e][ei[e] + 1]]
       IN  \E affiliation \in affiliationsFor(ref.firstAuthor, ref.title) :
             LET refIndex == refIndexOf(refs, ref)
                 hit == affiliation # <<>> /\ refIndex # 0
                 count == IF hit THEN enhanced[e] + 1 ELSE enhanced[e]
             IN  /\ ereferences' = [ereferences EXCEPT ![e] =
                        IF hit
                        THEN [refs EXCEPT ![refIndex].firstAuthorAffiliation = affiliation]
                        ELSE refs]
                 /\ masterTable' = ereferences'[e]
                 /\ version' = version + 1
                 /\ savedAt' = [savedAt EXCEPT ![<<"enhancement", e>>] = version + 1]
                 /\ enhanced' = [enhanced EXCEPT ![e] = count]
                 /\ enhancementJobs' = [enhancementJobs EXCEPT ![e] =
                        [@ EXCEPT !.processedReferences = ei[e] + 1,
                                  !.enhancedReferences = count,
                                  !.progress = progressOf(ei[e] + 1, n)]]
                 /\ ei' = [ei EXCEPT ![e] = @ + 1]
                 /\ lookups' = [lookups EXCEPT ![e] =
                        LET answered == [@ EXCEPT ![ei[e] + 1] =
                                [@ EXCEPT !.state = "returned",
                                          !.affiliation = affiliation]]
                        IN  IF ei[e] + 1 < n
                            THEN Append(answered,
                                        Lookup(needsEnhancement[e][ei[e] + 2]))
                            ELSE answered]
                 /\ epc' = [epc EXCEPT ![e] =
                        IF ei[e] + 1 < n THEN "findAffiliation" ELSE "saveMasterTable"]
    /\ UNCHANGED <<xpc, xreferences, xstats, needsEnhancement, loadedAt,
                   clearedAt, eloaded>>
    /\ UNCHANGED <<jobVars, newReferences, calls, notStoreVars>>

\* findAffiliation returned for the record at loop index i: the rest of the
\* iteration, then either the next lookup or the await of saveMasterTable
AffiliationReturned(e) ==
    /\ epc[e] = "findAffiliation"
    /\ LET refs == ereferences[e]
           n == Len(needsEnhancement[e])
           ref == refs[needsEnhancement[e][ei[e] + 1]]
       IN  \E affiliation \in affiliationsFor(ref.firstAuthor, ref.title) :
             LET refIndex == refIndexOf(refs, ref)
                 hit == affiliation # <<>> /\ refIndex # 0
                 count == IF hit THEN enhanced[e] + 1 ELSE enhanced[e]
             IN  /\ ereferences' = [ereferences EXCEPT ![e] =
                        IF hit
                        THEN [refs EXCEPT ![refIndex].firstAuthorAffiliation = affiliation]
                        ELSE refs]
                 /\ enhanced' = [enhanced EXCEPT ![e] = count]
                 /\ enhancementJobs' = [enhancementJobs EXCEPT ![e] =
                        [@ EXCEPT !.processedReferences = ei[e] + 1,
                                  !.enhancedReferences = count,
                                  !.progress = progressOf(ei[e] + 1, n)]]
                 /\ ei' = [ei EXCEPT ![e] = @ + 1]
                 /\ lookups' = [lookups EXCEPT ![e] =
                        LET answered == [@ EXCEPT ![ei[e] + 1] =
                                [@ EXCEPT !.state = "returned",
                                          !.affiliation = affiliation]]
                        IN  IF ei[e] + 1 < n
                            THEN Append(answered,
                                        Lookup(needsEnhancement[e][ei[e] + 2]))
                            ELSE answered]
                 /\ epc' = [epc EXCEPT ![e] =
                        IF ei[e] + 1 < n THEN "findAffiliation" ELSE "saveMasterTable"]
    /\ UNCHANGED <<xpc, xreferences, xstats, needsEnhancement, version, loadedAt,
                   savedAt, clearedAt, eloaded>>
    /\ UNCHANGED <<jobVars, masterTable, newReferences, calls, notStoreVars>>

\* mutant: the run persists its working set instead of the full collection
EnhancementSavedWorkingSet(e) ==
    /\ epc[e] = "saveMasterTable"
    /\ masterTable' = [p \in 1..Len(needsEnhancement[e]) |->
                          ereferences[e][needsEnhancement[e][p]]]
    /\ version' = version + 1
    /\ savedAt' = [savedAt EXCEPT ![<<"enhancement", e>>] = version + 1]
    /\ enhancementJobs' = [enhancementJobs EXCEPT ![e] = enhancementCompleted(@)]
    /\ epc' = [epc EXCEPT ![e] = "done"]
    /\ UNCHANGED <<xpc, xreferences, xstats, ereferences, needsEnhancement, ei,
                   enhanced, loadedAt, clearedAt>>
    /\ UNCHANGED <<eloaded, lookups>>
    /\ UNCHANGED <<jobVars, newReferences, calls, notStoreVars>>

\* saveMasterTable(references) wrote references.json: the run completes
EnhancementSaved(e) ==
    /\ epc[e] = "saveMasterTable"
    /\ masterTable' = ereferences[e]
    /\ version' = version + 1
    /\ savedAt' = [savedAt EXCEPT ![<<"enhancement", e>>] = version + 1]
    /\ enhancementJobs' = [enhancementJobs EXCEPT ![e] = enhancementCompleted(@)]
    /\ epc' = [epc EXCEPT ![e] = "done"]
    /\ UNCHANGED <<xpc, xreferences, xstats, ereferences, needsEnhancement, ei,
                   enhanced, loadedAt, clearedAt>>
    /\ UNCHANGED <<eloaded, lookups>>
    /\ UNCHANGED <<jobVars, newReferences, calls, notStoreVars>>

\* saveMasterTable(references) threw before it wrote: the run fails
EnhancementSaveFails(e) ==
    /\ epc[e] = "saveMasterTable"
    /\ enhancementJobs' = [enhancementJobs EXCEPT ![e] =
                              enhancementFailed(@, "write failed")]
    /\ epc' = [epc EXCEPT ![e] = "done"]
    /\ UNCHANGED <<xpc, xreferences, xstats, ereferences, needsEnhancement, ei,
                   enhanced, version, loadedAt, savedAt, clearedAt>>
    /\ UNCHANGED <<eloaded, lookups>>
    /\ UNCHANGED <<jobVars, masterTable, newReferences, calls, notStoreVars>>

\* saveMasterTable(references) wrote references.json and threw while it
\* wrote the CSV or the Excel file (masterTable.ts 61-88): the run fails
EnhancementExportFails(e) ==
    /\ epc[e] = "saveMasterTable"
    /\ Len(ereferences[e]) > 0
    /\ masterTable' = ereferences[e]
    /\ version' = version + 1
    /\ savedAt' = [savedAt EXCEPT ![<<"enhancement", e>>] = version + 1]
    /\ enhancementJobs' = [enhancementJobs EXCEPT ![e] =
                              enhancementFailed(@, "export failed")]
    /\ epc' = [epc EXCEPT ![e] = "done"]
    /\ UNCHANGED <<xpc, xreferences, xstats, ereferences, needsEnhancement, ei,
                   enhanced, loadedAt, clearedAt>>
    /\ UNCHANGED <<eloaded, lookups>>
    /\ UNCHANGED <<jobVars, newReferences, calls, notStoreVars>>

\* loadMasterTable could not read or parse references.json: its catch
\* returns [] (masterTable.ts 43-47), and the run fails on the empty list
EnhancementLoadFails(e) ==
    /\ epc[e] = "loadMasterTable"
    /\ loadedAt' = [loadedAt EXCEPT ![<<"enhancement", e>>] = version]
    /\ enhancementJobs' = [enhancementJobs EXCEPT ![e] =
          enhancementFailed([@ EXCEPT !.totalReferences = 0],
                            "No references found in master table")]
    /\ epc' = [epc EXCEPT ![e] = "done"]
    /\ UNCHANGED <<xpc, xreferences, xstats, ereferences, needsEnhancement, ei,
                   enhanced, version, savedAt, clearedAt>>
    /\ UNCHANGED <<eloaded, lookups>>
    /\ UNCHANGED <<jobVars, masterTable, newReferences, calls, notStoreVars>>

\* DELETE /master
StoreCleared ==
    /\ clearMasterTable
    /\ version' = version + 1
    /\ clearedAt' = version + 1
    /\ UNCHANGED <<xpc, xreferences, xstats, enhancementJobs, epc, ereferences,
                   needsEnhancement, ei, enhanced, loadedAt, savedAt>>
    /\ UNCHANGED <<eloaded, lookups>>
    /\ UNCHANGED <<jobVars, newReferences, calls, notStoreVars>>

StoreNext ==
    \/ \E j \in Jobs :
        \/ ExtractionReturns(j)
        \/ StoreLoaded(j)
        \/ StoreSaved(j)
    \/ \E e \in Runs :
        \/ StartEnhancement(e)
        \/ EnhancementLoaded(e)
        \/ AffiliationReturned(e)
        \/ EnhancementSaved(e)
        \/ EnhancementSaveFails(e)
        \/ EnhancementExportFails(e)
        \/ EnhancementLoadFails(e)
    \/ StoreCleared

SpecStore == Init /\ [][StoreNext]_vars

(***************************************************************************)
(* extractAllReferencesWithLLM and extractInChunks as a whole              *)
(* (llmBatchExtractor.ts 69-231).  A text is its length and the positions  *)
(* at which "\n\n" starts (counted from 0): the split looks at nothing     *)
(* else.                                                                   *)
(***************************************************************************)
\* const maxChars = 15000
maxChars == 15000

\* the 500 of lines 200-201
paragraphWindow == 500

Text(length, breaks) == [length |-> length, breaks |-> breaks]

Min(a, b) == IF a < b THEN a ELSE b

\* fullText.indexOf('\n\n', from)
indexOf(text, from) ==
    LET found == {b \in text.breaks : b >= from}
    IN  IF found = {} THEN -1
        ELSE CHOOSE b \in found : \A c \in found : b <= c

\* fullText.substring(start, end)
substring(text, start, end) ==
    Text(end - start,
         {b - start : b \in {c \in text.breaks : c >= start /\ c + 2 <= end}})

\* the end of the chunk that starts at currentPos (lines 196-204)
endPosOf(text, chunkSize, currentPos) ==
    LET endPos == Min(currentPos + chunkSize, text.length)
        nextBreak == indexOf(text, endPos - paragraphWindow)
    IN  IF /\ endPos < text.length
           /\ nextBreak > endPos - paragraphWindow
           /\ nextBreak < endPos + paragraphWindow
        THEN nextBreak ELSE endPos

\* mutant: the loop resumes after the paragraph break it split at
RECURSIVE chunksFromSkipping(_, _, _)
chunksFromSkipping(text, chunkSize, currentPos) ==
    IF currentPos < text.length
    THEN LET endPos == endPosOf(text, chunkSize, currentPos)
         IN  <<substring(text, currentPos, endPos)>>
                 \o chunksFromSkipping(text, chunkSize, endPos + 2)
    ELSE <<>>

\* the while loop of extractInChunks (195-208)
RECURSIVE chunksFrom(_, _, _)
chunksFrom(text, chunkSize, currentPos) ==
    IF currentPos < text.length
    THEN LET endPos == endPosOf(text, chunkSize, currentPos)
         IN  <<substring(text, currentPos, endPos)>>
                 \o chunksFrom(text, chunkSize, endPos)
    ELSE <<>>

chunksOf(text) == chunksFrom(text, maxChars, 0)

\* mutant: the seen set holds the keys as written
RECURSIVE uniqueAsWritten(_, _)
uniqueAsWritten(seen, allReferences) ==
    IF allReferences = <<>> THEN <<>>
    ELSE LET ref == Head(allReferences)
             key == ref.citationKey
         IN  IF key \in seen
             THEN uniqueAsWritten(seen, Tail(allReferences))
             ELSE <<ref>> \o uniqueAsWritten(seen \cup {key}, Tail(allReferences))

\* the filter over allReferences with the Set seen (221-227)
RECURSIVE unique(_, _)
unique(seen, allReferences) ==
    IF allReferences = <<>> THEN <<>>
    ELSE LET ref == Head(allReferences)
             key == toLowerCase(ref.citationKey)
         IN  IF key \in seen
             THEN unique(seen, Tail(allReferences))
             ELSE <<ref>> \o unique(seen \cup {key}, Tail(allReferences))

\* a call of extractAllReferencesWithLLM(text) with a client: a text over
\* the limit goes to extractInChunks, which calls extractAllReferencesWithLLM
\* with its first chunk; the model is called with the first text that is
\* within the limit (81-103)
RECURSIVE Enter(_, _)
Enter(fr, text) ==
    IF text.length > maxChars
    THEN LET chunks == chunksOf(text)
         IN  Enter(Append(fr, [chunks |-> chunks, i |-> 1, allReferences |-> <<>>]),
                   chunks[1])
    ELSE [frames |-> fr, request |-> text, extracted |-> <<>>]

\* extractAllReferencesWithLLM returns result: to the outermost caller, or
\* into the loop of the innermost extractInChunks (216-217), which calls the
\* next chunk or, after its last chunk, deduplicates and returns (221-230).
\* i is the position of the chunk in flight, counted from 1.
RECURSIVE Return(_, _)
Return(fr, result) ==
    IF fr = <<>>
    THEN [frames |-> <<>>, request |-> Absent, extracted |-> <<result>>]
    ELSE LET top == fr[Len(fr)]
             allReferences == top.allReferences \o result
         IN  IF top.i < Len(top.chunks)
             THEN Enter([fr EXCEPT ![Len(fr)] =
                            [top EXCEPT !.i = @ + 1,
                                        !.allReferences = allReferences]],
                        top.chunks[top.i + 1])
             ELSE Return(SubSeq(fr, 1, Len(fr) - 1), unique({}, allReferences))

\* lengths around the limit, and places where a paragraph may end
TextLengths == {100, 15000, 15001, 30000}

BreakPositions == {50, 14500, 14800, 15200}

Texts ==
    {text \in {Text(length, breaks) :
                  length \in TextLengths, breaks \in SUBSET BreakPositions} :
        \A b \in text.breaks : b + 2 <= text.length}

(***************************************************************************)
(* The text of a response (llmBatchExtractor.ts 110-150).  A text is a     *)
(* sequence of characters in which "1" and "2" stand for the object        *)
(* literal of an entry, "r", "i" and "o" for the keys "references":,       *)
(* "items": and another key with their colon, "~" for an object literal    *)
(* cut short and "x" for prose.                                            *)
(***************************************************************************)
EntryTokens == {"1", "2"}

KeyTokens == {"r", "i", "o"}

\* the entry an object literal denotes
entryOf(token) ==
    IF token = "1" THEN ModelEntry(<<"a">>, <<>>, <<"a">>, <<"x">>)
    ELSE ModelEntry(<<"b">>, <<>>, <<"a">>, <<"x">>)

NotSpace(c) == ~ IsSpace(c)

\* whether ts, without white space, is an array literal of entries
isArrayText(ts) ==
    /\ Len(ts) >= 2
    /\ ts[1] = "[" /\ ts[Len(ts)] = "]"
    /\ Len(ts) = 2 \/ Len(ts) % 2 = 1
    /\ \A k \in 2..(Len(ts) - 1) :
          IF k % 2 = 0 THEN ts[k] \in EntryTokens ELSE ts[k] = ","

itemsOf(ts) == [k \in 1..((Len(ts) - 1) \div 2) |-> entryOf(ts[2 * k])]

SyntaxError == [ok |-> FALSE, kind |-> "none", key |-> "none", items |-> <<>>]

Parsed(kind, key, items) == [ok |-> TRUE, kind |-> kind, key |-> key, items |-> items]

\* JSON.parse(text): an array of entries, an object with one key and an
\* array of entries, the empty object; anything else is a SyntaxError
JSONparse(text) ==
    LET ts == SelectSeq(text, NotSpace)
    IN  IF isArrayText(ts) THEN Parsed("array", "none", itemsOf(ts))
        ELSE IF ts = <<"{", "}">> THEN Parsed("object", "none", <<>>)
        ELSE IF /\ Len(ts) >= 4
                /\ ts[1] = "{" /\ ts[2] \in KeyTokens /\ ts[Len(ts)] = "}"
                /\ isArrayText(SubSeq(ts, 3, Len(ts) - 1))
        THEN Parsed("object", ts[2], itemsOf(SubSeq(ts, 3, Len(ts) - 1)))
        ELSE SyntaxError

\* content.match(/\[[\s\S]*\]/)?.[0]: from the first "[" to the last "]"
\* after it; <<>> when there is no match
arrayMatch(content) ==
    LET opens == {k \in 1..Len(content) : content[k] = "["}
        first == CHOOSE k \in opens : \A m \in opens : k <= m
        closes == {k \in 1..Len(content) : content[k] = "]" /\ k > first}
        last == CHOOSE k \in closes : \A m \in closes : m <= k
    IN  IF opens = {} THEN <<>>
        ELSE IF closes = {} THEN <<>>
        ELSE SubSeq(content, first, last)

\* lines 110-137: the value parsed from the content, SyntaxError when the
\* last catch throws
parseContent(content) ==
    LET direct == JSONparse(content)
        fixed == JSONparse(Trim(content) \o <<"]", "}">>)
        match == arrayMatch(content)
    IN  IF direct.ok THEN direct
        ELSE IF fixed.ok THEN fixed
        ELSE IF match # <<>> /\ JSONparse(match).ok
        THEN Parsed("object", "r", JSONparse(match).items)
        ELSE SyntaxError

\* lines 140-150: <<referencesArray>>, <<>> when the shape check throws
referencesArrayOf(parsed) ==
    IF parsed.kind = "array" \/ parsed.key \in {"r", "i"}
    THEN <<parsed.items>> ELSE <<>>

\* the list a call returns for a response with content (105-184)
returnedForContent(content) ==
    LET parsed == parseContent(content)
    IN  IF content = <<>> \/ ~ parsed.ok \/ referencesArrayOf(parsed) = <<>>
        THEN <<>>
        ELSE validReferences(referencesArrayOf(parsed)[1])

\* texts of a response: the object asked for; the object cut after an
\* entry; cut after a comma; cut inside an entry; an array within prose; an
\* array within prose that goes on with a bracketed remark; the array
\* under another key
ModelContents ==
    { <<"{", "r", "[", "1", ",", "2", "]", "}">>,
      <<"{", "r", "[", "1", " ">>,
      <<"{", "r", "[", "1", ",">>,
      <<"{", "r", "[", "1", ",", "~">>,
      <<"x", "[", "2", "]", "x">>,
      <<"x", "[", "2", "]", "x", "[", "x", "]">>,
      <<"{", "o", "[", "1", "]", "}">> }

\* what the model sends back: the request fails or carries no content (the
\* extractor catches the error and returns [], 105-108 and 181-184), the
\* content parses to an array of entries, or the content is a text to parse
ModelAnswers ==
    { <<"content", content>> : content \in ModelContents } \cup
    { <<"rejects">>,
      <<"parsed", <<>>>>,
      <<"parsed", <<ModelEntry(<<"a">>, <<>>, <<"a">>, <<"x">>),
                    ModelEntry(<<"U", "n", "k", "n", "o", "w", "n">>, <<>>,
                               <<"a">>, <<"x">>)>>>>,
      <<"parsed", <<ModelEntry(<<>>, <<>>, <<>>, <<"x">>),
                    ModelEntry(<<"A">>, <<>>, <<>>, <<"x">>)>>>>,
      <<"parsed", <<ModelEntry(<<"a">>, <<>>, <<>>, <<>>),
                    ModelEntry(<<>>, <<"b">>, <<"a">>, <<>>)>>>> }

\* the list one call returns for an answer
returnedFor(answer) ==
    IF answer[1] = "rejects" THEN <<>>
    ELSE IF answer[1] = "content" THEN returnedForContent(answer[2])
    ELSE validReferences(answer[2])

\* extractAllReferencesWithLLM(fullText) is called: without a client it
\* returns [] at once (70-73), else it runs to its first model call
ExtractCalled ==
    /\ fullText = Absent
    /\ \E text \in Texts, client \in BOOLEAN :
        /\ fullText' = text
        /\ openai' = client
        /\ LET next == IF client THEN Enter(<<>>, text)
                       ELSE [frames |-> <<>>, request |-> Absent,
                             extracted |-> << <<>> >>]
           IN  /\ frames' = next.frames
               /\ request' = next.request
               /\ extracted' = next.extracted
    /\ UNCHANGED modelCalls
    /\ UNCHANGED <<jobVars, masterTable, newReferences, calls, storeVars,
                   resolveVars, matchVars, callVars>>

\* the model call in flight ends: the call of extractAllReferencesWithLLM
\* that made it returns its list (105-184), and the callers run on to the
\* next model call or to the end
ModelAnswered ==
    /\ request # Absent
    /\ \E answer \in ModelAnswers :
        LET result == returnedFor(answer)
            next == Return(frames, result)
        IN  /\ modelCalls' = Append(modelCalls,
                                    [text |-> request, answer |-> answer,
                                     returned |-> result])
            /\ frames' = next.frames
            /\ request' = next.request
            /\ extracted' = next.extracted
    /\ UNCHANGED <<fullText, openai>>
    /\ UNCHANGED <<jobVars, masterTable, newReferences, calls, storeVars,
                   resolveVars, matchVars, callVars>>

ExtractNext ==
    \/ ExtractCalled
    \/ ModelAnswered

SpecExtract == Init /\ [][ExtractNext]_vars

(***************************************************************************)
(* Name matching (affiliation finder, pipeline/ocr.ts 656-698).            *)
(***************************************************************************)
\* normalizeAuthorName: lower case, every character outside [A-Za-z0-9_] and
\* whitespace removed, whitespace runs collapsed, trimmed
normalizeAuthorName(name) == Trim(CollapseSpaces(StripPunct(toLowerCase(name))))

\* String.prototype.split(' '): the empty string splits into one empty part
RECURSIVE split(_)
split(s) ==
    IF \A i \in 1..Len(s) : s[i] # " " THEN <<s>>
    ELSE LET k == CHOOSE i \in 1..Len(s) :
                      s[i] = " " /\ \A h \in 1..(i - 1) : s[h] # " "
         IN  <<SubSeq(s, 1, k - 1)>> \o split(SubSeq(s, k + 1, Len(s)))

\* parts[0]?.[0] || ''
firstInitial(parts) == IF parts[1] = <<>> THEN <<>> ELSE <<parts[1][1]>>

\* mutant: only equal normalized names match
authorsMatchExact(name1, name2) ==
    normalizeAuthorName(name1) = normalizeAuthorName(name2)

authorsMatch(name1, name2) ==
    LET n1 == normalizeAuthorName(name1)
        n2 == normalizeAuthorName(name2)
        parts1 == split(n1)
        parts2 == split(n2)
        lastName1 == parts1[Len(parts1)]
        lastName2 == parts2[Len(parts2)]
        firstInit1 == firstInitial(parts1)
        firstInit2 == firstInitial(parts2)
    IN  IF n1 = n2 THEN TRUE
        ELSE IF Includes(n1, n2) \/ Includes(n2, n1) THEN TRUE
        ELSE IF lastName1 # lastName2 THEN FALSE
        ELSE IF firstInit1 # <<>> /\ firstInit2 # <<>> /\ firstInit1 # firstInit2
             THEN FALSE
        ELSE TRUE

\* names authorsMatch is called with: initials, spelled-out first names,
\* comma-inverted order, a surname alone, the empty name, irregular case and
\* spacing, letters outside ASCII
MatchNames ==
    { <<"J", ".", " ", "S", "m", "i", "t", "h">>,
      <<"J", "o", "h", "n", " ", "S", "m", "i", "t", "h">>,
      <<"J", "a", "n", "e", " ", "S", "m", "i", "t", "h">>,
      <<"W", "i", "e", "n", "e", "r", ",", " ", "N", ".">>,
      <<"N", ".", " ", "W", "i", "e", "n", "e", "r">>,
      <<"S", "m", "i", "t", "h">>,
      <<>>,
      <<"A", ".", " ", "S", "m", "i", "t", "h">>,
      <<"j", "o", "h", "n", " ", " ", "S", "M", "I", "T", "H">>,
      <<"M", "ü", "l", "l", "e", "r">>,
      <<"M", "ö", "l", "l", "e", "r">> }

\* authorsMatch(name1, name2) is called and returns
AuthorsMatchCalled ==
    /\ matchArgs = Absent
    /\ \E name1 \in MatchNames, name2 \in MatchNames :
        /\ matchArgs' = [name1 |-> name1, name2 |-> name2]
        /\ matched' = <<authorsMatch(name1, name2)>>
    /\ UNCHANGED <<jobVars, masterTable, newReferences, calls, storeVars,
                   extractVars, resolveVars, callVars>>

MatchNext == AuthorsMatchCalled

SpecMatch == Init /\ [][MatchNext]_vars

(***************************************************************************)
(* findAffiliation (affiliation finder, pipeline/ocr.ts 330-387).  Each    *)
(* tier is a search function that is awaited; what the service answers is  *)
(* a response, and the search function turns it into an affiliation or     *)
(* into null (<<>>).                                                       *)
(***************************************************************************)
IsDigit(c) == c \in {"0", "1", "2", "3", "4", "5", "6", "7", "8", "9"}

DigitValue(c) ==
    CASE c = "0" -> 0 [] c = "1" -> 1 [] c = "2" -> 2 [] c = "3" -> 3
      [] c = "4" -> 4 [] c = "5" -> 5 [] c = "6" -> 6 [] c = "7" -> 7
      [] c = "8" -> 8 [] c = "9" -> 9

\* the longest prefix of decimal digits
RECURSIVE DigitsPrefix(_)
DigitsPrefix(s) ==
    IF s # <<>> /\ IsDigit(Head(s)) THEN <<Head(s)>> \o DigitsPrefix(Tail(s))
    ELSE <<>>

RECURSIVE DecimalValue(_)
DecimalValue(digits) ==
    IF digits = <<>> THEN 0
    ELSE 10 * DecimalValue(SubSeq(digits, 1, Len(digits) - 1))
            + DigitValue(digits[Len(digits)])

NaN == [nan |-> TRUE, value |-> 0]

\* parseInt(year): leading whitespace is skipped, a sign is read, then the
\* longest run of decimal digits; NaN when there is none
parseInt(string) ==
    LET t == TrimLeft(string)
        signed == t # <<>> /\ Head(t) \in {"-", "+"}
        digits == DigitsPrefix(IF signed THEN Tail(t) ELSE t)
    IN  IF digits = <<>> THEN NaN
        ELSE [nan |-> FALSE,
              value |-> IF Head(t) = "-" THEN 0 - DecimalValue(digits)
                        ELSE DecimalValue(digits)]

\* the truth value of a number: NaN and 0 are falsy
Truthy(number) == ~ number.nan /\ number.value # 0

\* lines 340-341
isHistorical(year) ==
    LET yearNum == parseInt(year)
    IN  Truthy(yearNum) /\ yearNum.value < 1900

AffiliationResult(affiliation, confidence, source) ==
    [affiliation |-> affiliation, confidence |-> confidence, source |-> source]

\* mutant: the fallback index is asked before the paid search
tierAfterSwapped(tier) ==
    CASE tier = "semantic-scholar" -> "openalex"
      [] tier = "openalex" -> IF perplexityKey THEN "perplexity" ELSE "none"
      [] tier = "perplexity" -> "none"

\* mutant: tier 2 is asked whether or not a key is configured
tierAfterIgnoringKey(tier) ==
    CASE tier = "semantic-scholar" -> "perplexity"
      [] tier = "perplexity" -> "openalex"
      [] tier = "openalex" -> "none"

\* the tier findAffiliation turns to after tier missed (356-372)
tierAfter(tier) ==
    CASE tier = "semantic-scholar" ->
            IF perplexityKey THEN "perplexity" ELSE "openalex"
      [] tier = "perplexity" -> "openalex"
      [] tier = "openalex" -> "none"

\* the confidence reported with a hit of tier (354, 364, 376)
confidenceOf(tier) == IF tier = "openalex" THEN "medium" ELSE "high"

AuthorNames == {<<>>, <<"J", ".", " ", "S", "m", "i", "t", "h">>}

PaperTitles == {<<>>, <<"x">>}

\* year strings: none, historical, at and after the limit, zero, negative,
\* not a number, and a number after a blank
Years ==
    { <<>>, <<"1", "8", "5", "0">>, <<"1", "8", "9", "9">>,
      <<"1", "9", "0", "0">>, <<"2", "0", "2", "0">>, <<"0">>, <<"-", "5">>,
      <<"x">>, <<" ", "9", "9">> }

\* what a service answers: a response that is not ok, a thrown network
\* error, or an ok response with a body
Response(kind, body) == [kind |-> kind, body |-> body]

\* findAffiliation(authorName, paperTitle, year) is called and runs to its
\* first await, or returns at once (335-351)
FindAffiliationCalled ==
    /\ rpc = "idle"
    /\ \E authorName \in AuthorNames, paperTitle \in PaperTitles,
          year \in Years, key \in BOOLEAN :
        /\ resolveArgs' = [authorName |-> authorName, paperTitle |-> paperTitle,
                           year |-> year]
        /\ perplexityKey' = key
        /\ IF authorName = <<>> \/ paperTitle = <<>>
           THEN /\ resolved' = AffiliationResult(<<>>, "low", "openalex")
                /\ rpc' = "returned"
                /\ tierLog' = tierLog
           ELSE IF isHistorical(year)
           THEN /\ resolved' = AffiliationResult(<<>>, "low", "skipped-historical")
                /\ rpc' = "returned"
                /\ tierLog' = tierLog
           ELSE /\ resolved' = resolved
                /\ rpc' = "semantic-scholar"
                /\ tierLog' = <<[tier |-> "semantic-scholar", state |-> "pending",
                                 response |-> Response("pending", <<>>),
                                 affiliation |-> <<>>]>>
    /\ UNCHANGED <<jobVars, masterTable, newReferences, calls, storeVars,
                   extractVars, matchVars, callVars>>

ServiceErrors == {Response("non-2xx", <<>>), Response("throws", <<>>)}

Institution(display_name, country_code) ==
    [display_name |-> display_name, country_code |-> country_code]

Authorship(display_name, institutions) ==
    [display_name |-> display_name, institutions |-> institutions]

MIT == Institution(<<"M", "I", "T">>, <<"U", "S">>)

ETH == Institution(<<"E", "T", "H">>, <<>>)

\* top results of the works index: the author alone, another author, the
\* author after another author and after an entry of theirs without
\* institutions, no authorships, an authorship without a name
Works ==
    { <<Authorship(<<"J", "o", "h", "n", " ", "S", "m", "i", "t", "h">>, <<MIT>>)>>,
      <<Authorship(<<"J", "a", "n", "e", " ", "D", "o", "e">>, <<ETH>>)>>,
      <<Authorship(<<"J", "a", "n", "e", " ", "D", "o", "e">>, <<ETH>>), Authorship(<<"J", "o", "h", "n", " ", "S", "m", "i", "t", "h">>, <<>>),
        Authorship(<<"J", " ", "S", "m", "i", "t", "h">>, <<MIT, ETH>>)>>,
      <<>>,
      <<Authorship(<<>>, <<ETH>>)>> }

\* the answers of a tier: tiers 1 and 2 answer with the affiliation they
\* found or with none, tier 3 with a list of at most one work
Responses(tier) ==
    ServiceErrors \cup
    IF tier = "openalex"
    THEN {Response("ok", <<>>)}
            \cup {Response("ok", <<[authorships |-> w]>>) : w \in Works}
    ELSE {Response("ok", <<>>), Response("ok", <<"M">>)}

\* `${institutionName}${country}` (629-632)
affiliationText(institution) ==
    institution.display_name \o
        (IF institution.country_code # <<>>
         THEN <<" ", "(">> \o institution.country_code \o <<")">>
         ELSE <<>>)

\* mutant: the first institution of the work, whoever its author is
RECURSIVE extractFirstAffiliation(_, _)
extractFirstAffiliation(authorships, targetAuthor) ==
    IF authorships = <<>> THEN <<>>
    ELSE IF Head(authorships).institutions # <<>>
         THEN affiliationText(Head(authorships).institutions[1])
         ELSE extractFirstAffiliation(Tail(authorships), targetAuthor)

\* extractAffiliationFromWork, from the loop on (624-640)
RECURSIVE extractAffiliationFromWork(_, _)
extractAffiliationFromWork(authorships, targetAuthor) ==
    IF authorships = <<>> THEN <<>>
    ELSE IF /\ authorsMatch(targetAuthor, Head(authorships).display_name)
            /\ Head(authorships).institutions # <<>>
         THEN affiliationText(Head(authorships).institutions[1])
         ELSE extractAffiliationFromWork(Tail(authorships), targetAuthor)

\* what a search function hands to findAffiliation
Returned(affiliation) == [thrown |-> FALSE, affiliation |-> affiliation]

Thrown == [thrown |-> TRUE, affiliation |-> <<>>]

\* mutant: a thrown network error leaves the search function
searchRethrowing(tier, authorName, response) ==
    IF response.kind = "throws" THEN Thrown
    ELSE IF response.kind # "ok" \/ response.body = <<>> THEN Returned(<<>>)
    ELSE IF tier = "openalex"
         THEN Returned(extractAffiliationFromWork(response.body[1].authorships,
                                                  authorName))
         ELSE Returned(response.body)

\* searchSemanticScholar, searchPerplexity and searchOpenAlex: each returns
\* null from its catch and for a response that is not ok (414-417, 446-449,
\* 524-528, 564-567, 595-597, 608-610); searchOpenAlex scans the top result
search(tier, authorName, response) ==
    IF response.kind # "ok" \/ response.body = <<>> THEN Returned(<<>>)
    ELSE IF tier = "openalex"
         THEN Returned(extractAffiliationFromWork(response.body[1].authorships,
                                                  authorName))
         ELSE Returned(response.body)

\* the search of tier has an answer: the call returns the hit, turns to the
\* next tier, or returns the final miss; an exception that reached
\* findAffiliation would end the call in its catch (383-386)
TierReturned(tier) ==
    /\ rpc = tier
    /\ \E response \in Responses(tier) :
        LET outcome == search(tier, resolveArgs.authorName, response)
            affiliation == outcome.affiliation
            logged == [tierLog EXCEPT ![Len(tierLog)] =
                          [tier |-> tier, state |-> "returned",
                           response |-> response, affiliation |-> affiliation]]
        IN  IF outcome.thrown
            THEN /\ resolved' = AffiliationResult(<<>>, "low", "openalex")
                 /\ rpc' = "returned"
                 /\ tierLog' = logged
            ELSE IF affiliation # <<>>
            THEN /\ resolved' = AffiliationResult(affiliation, confidenceOf(tier), tier)
                 /\ rpc' = "returned"
                 /\ tierLog' = logged
            ELSE IF tierAfter(tier) = "none"
            THEN /\ resolved' = AffiliationResult(<<>>, "low", "openalex")
                 /\ rpc' = "returned"
                 /\ tierLog' = logged
            ELSE /\ resolved' = resolved
                 /\ rpc' = tierAfter(tier)
                 /\ tierLog' = Append(logged,
                       [tier |-> tierAfter(tier), state |-> "pending",
                        response |-> Response("pending", <<>>),
                        affiliation |-> <<>>])
    /\ UNCHANGED <<resolveArgs, perplexityKey>>
    /\ UNCHANGED <<jobVars, masterTable, newReferences, calls, storeVars,
                   extractVars, matchVars, callVars>>

\* searchSemanticScholar returned (351-356)
SemanticScholarReturned == TierReturned("semantic-scholar")

\* searchPerplexity returned (361-366)
PerplexityReturned == TierReturned("perplexity")

\* searchOpenAlex returned (373-381)
OpenAlexReturned == TierReturned("openalex")

ResolveNext ==
    \/ FindAffiliationCalled
    \/ SemanticScholarReturned
    \/ PerplexityReturned
    \/ OpenAlexReturned

SpecResolve == Init /\ [][ResolveNext]_vars

(***************************************************************************)
(* searchSemanticScholar and getSemanticScholarAuthorAffiliation           *)
(* (pipeline/ocr.ts 394-480), one action per resumption.  A year the       *)
(* service left out is <<>>, a year it gave is <<number>>.                 *)
(***************************************************************************)
ScholarAuthor(name, authorId) == [name |-> name, authorId |-> authorId]

Paper(year, authors) == [year |-> year, authors |-> authors]

Abs(n) == IF n < 0 THEN 0 - n ELSE n

\* mutant: a result is skipped when the years lie more than 2 apart
yearTooFarBeyondTwo(year, paper) ==
    /\ year # <<>>
    /\ paper.year # <<>> /\ paper.year[1] # 0
    /\ ~ parseInt(year).nan
    /\ Abs(parseInt(year).value - paper.year[1]) > 2

\* year && paper.year && Math.abs(parseInt(year) - paper.year) > 1 (line
\* 427): a comparison with NaN is false
yearTooFar(year, paper) ==
    /\ year # <<>>
    /\ paper.year # <<>> /\ paper.year[1] # 0
    /\ ~ parseInt(year).nan
    /\ Abs(parseInt(year).value - paper.year[1]) > 1

\* the loops of lines 425-444 from author a of paper p on: the next author
\* whose profile is requested, <<>> when the loops end without one.  An
\* author who matches but has no authorId gets null without a request
\* (line 456).
RECURSIVE nextLookup(_, _, _, _)
nextLookup(data, args, p, a) ==
    IF p > Len(data) THEN <<>>
    ELSE IF yearTooFar(args.year, data[p]) \/ a > Len(data[p].authors)
    THEN nextLookup(data, args, p + 1, 1)
    ELSE IF /\ authorsMatch(args.authorName, data[p].authors[a].name)
            /\ data[p].authors[a].authorId # <<>>
    THEN <<p, a>>
    ELSE nextLookup(data, args, p, a + 1)

\* what the call awaited or sent: the delay, the title search, the profile
\* request for author a of paper p
HttpEvent(kind, p, a) == [kind |-> kind, paper |-> p, author |-> a]

\* the years findAffiliation passes on: none, a year, not a number
ScholarYears == {<<>>, <<"2", "0", "2", "0">>, <<"x">>}

JohnSmithName == <<"J", "o", "h", "n", " ", "S", "m", "i", "t", "h">>

\* author lists of a result: the author, another author, another author
\* before the author, the author twice (the second without an id being
\* the first), an author without a name, none
ScholarAuthorLists ==
    { <<ScholarAuthor(JohnSmithName, <<"1">>)>>,
      <<ScholarAuthor(<<"J", "a", "n", "e", " ", "D", "o", "e">>, <<"2">>)>>,
      <<ScholarAuthor(JohnSmithName, <<>>),
        ScholarAuthor(<<"J", " ", "S", "m", "i", "t", "h">>, <<"3">>)>>,
      <<ScholarAuthor(JohnSmithName, <<"1">>),
        ScholarAuthor(<<"S", "m", "i", "t", "h">>, <<"3">>)>>,
      <<ScholarAuthor(<<>>, <<"4">>)>>,
      <<>> }

PaperYears == {<<>>, <<2018>>, <<2019>>, <<2021>>, <<2022>>}

Papers == {Paper(year, authors) : year \in PaperYears,
                                  authors \in ScholarAuthorLists}

\* data.data of an ok response: up to two results
SearchResults ==
    {<<>>} \cup {<<p>> : p \in Papers} \cup {<<p, q>> : p \in Papers, q \in Papers}

\* what the author endpoint answers: an error, a profile without
\* affiliations, a profile with affiliations
Profiles ==
    { Response("non-2xx", <<>>), Response("throws", <<>>), Response("ok", <<>>),
      Response("ok", << <<"M", "I", "T">>, <<"E", "T", "H">> >>) }

\* getSemanticScholarAuthorAffiliation from the response on (467-479)
profileAffiliation(response) ==
    IF response.kind = "ok" /\ response.body # <<>> THEN response.body[1]
    ELSE <<>>

\* searchSemanticScholar(authorName, title, year) is called by
\* findAffiliation, with a name and a title: it runs to await delay(1000)
SearchCalled ==
    /\ spc = "idle"
    /\ \E year \in ScholarYears :
          scholarArgs' = [authorName |-> <<"J", ".", " ", "S", "m", "i", "t", "h">>,
                          year |-> year]
    /\ spc' = "delay"
    /\ UNCHANGED <<papers, lookup, httpLog, scholarResult>>
    /\ UNCHANGED <<jobVars, masterTable, newReferences, calls, storeVars,
                   extractVars, resolveVars, matchVars, updateVars>>

\* the delay has passed: fetch(searchUrl) is sent (408)
DelayElapsed ==
    /\ spc = "delay"
    /\ httpLog' = httpLog \o <<HttpEvent("delay", 0, 0), HttpEvent("search", 0, 0)>>
    /\ spc' = "search"
    /\ UNCHANGED <<scholarArgs, papers, lookup, scholarResult>>
    /\ UNCHANGED <<jobVars, masterTable, newReferences, calls, storeVars,
                   extractVars, resolveVars, matchVars, updateVars>>

\* the call goes on from author a of paper p: to the next profile request
\* or to return null (446)
ScanFrom(data, p, a) ==
    LET next == nextLookup(data, scholarArgs, p, a)
    IN  /\ lookup' = next
        /\ IF next = <<>>
           THEN /\ scholarResult' = << <<>> >>
                /\ spc' = "returned"
                /\ httpLog' = httpLog
           ELSE /\ scholarResult' = scholarResult
                /\ spc' = "author"
                /\ httpLog' = Append(httpLog, HttpEvent("author", next[1], next[2]))

\* the search is answered: an error or a response that is not ok ends the
\* call with null (414-417, 446-449), else the results are scanned
SearchResponded ==
    /\ spc = "search"
    /\ \/ /\ papers' = papers
          /\ lookup' = lookup
          /\ httpLog' = httpLog
          /\ scholarResult' = << <<>> >>
          /\ spc' = "returned"
       \/ \E data \in SearchResults :
             /\ papers' = data
             /\ ScanFrom(data, 1, 1)
    /\ UNCHANGED scholarArgs
    /\ UNCHANGED <<jobVars, masterTable, newReferences, calls, storeVars,
                   extractVars, resolveVars, matchVars, updateVars>>

\* the author endpoint is answered: the first affiliation is returned
\* (439-441), or the scan goes on with the next author
AuthorResponded ==
    /\ spc = "author"
    /\ \E response \in Profiles :
          LET affiliation == profileAffiliation(response)
          IN  IF affiliation # <<>>
              THEN /\ scholarResult' = <<affiliation>>
                   /\ spc' = "returned"
                   /\ UNCHANGED <<lookup, httpLog>>
              ELSE ScanFrom(papers, lookup[1], lookup[2] + 1)
    /\ UNCHANGED <<scholarArgs, papers>>
    /\ UNCHANGED <<jobVars, masterTable, newReferences, calls, storeVars,
                   extractVars, resolveVars, matchVars, updateVars>>

ScholarNext ==
    \/ SearchCalled
    \/ DelayElapsed
    \/ SearchResponded
    \/ AuthorResponded

SpecScholar == Init /\ [][ScholarNext]_vars

(***************************************************************************)
(* Claims.                                                                 *)
(***************************************************************************)
Terminal == {"completed", "failed"}

Finished(j) == pc[j] \in {"done", "unhandledRejection"}

\* C1: the progress a poll reads, from the in-memory tracker (getProgress) and
\* from the persisted job (GET /status), never decreases from one step to the
\* next, and a job that a poll has seen does not disappear; so every sequence
\* of successive polls of a job is non-decreasing, on both paths.
ProgressMonotone ==
    [][\A j \in Jobs :
         /\ getProgress(j) # Absent =>
              /\ getProgress(j)' # Absent
              /\ getProgress(j)'.progress >= getProgress(j).progress
         /\ statusRoute(j).code = 200 =>
              /\ statusRoute(j)'.code = 200
              /\ statusRoute(j)'.progress >= statusRoute(j).progress]_vars

\* a completed job and a failed job, both polled through both views
ProgressMonotoneWitness ==
    \E j, k \in Jobs :
        /\ statusRoute(j).code = 200 /\ statusRoute(j).status = "completed"
        /\ getProgress(j).status = "completed" /\ getProgress(j).progress = 100
        /\ statusRoute(k).code = 200 /\ statusRoute(k).status = "failed"
        /\ getProgress(k).status = "failed" /\ getProgress(k).progress = 100

\* C2 (as claimed): once page text has been obtained the persisted job read by
\* a status poll has progress >= 30, and once model extraction has succeeded
\* it has progress >= 90, before the job becomes terminal.
CheckpointsPersisted ==
    \A j \in Jobs :
        /\ pc[j] \in {"extractAllReferencesWithLLM", "loadMasterTable",
                      "saveMasterTable", "saveJob"}
             => statusRoute(j).code = 200 /\ statusRoute(j).progress >= 30
        /\ pc[j] \in {"loadMasterTable", "saveMasterTable", "saveJob"}
             => statusRoute(j).code = 200 /\ statusRoute(j).progress >= 90

StatusOf(view) == IF view = Absent THEN "absent" ELSE view.status

\* C3: in both views a status is processing, completed or failed; a completed
\* or failed status never changes again; and the two views never hold
\* completed and failed for the same job.
StatusLifecycle ==
    /\ [](\A j \in Jobs :
            /\ StatusOf(jobFiles[j]) \in {"absent", "processing"} \cup Terminal
            /\ StatusOf(jobProgress[j]) \in {"absent", "processing"} \cup Terminal
            /\ ~ (/\ StatusOf(jobFiles[j]) \in Terminal
                  /\ StatusOf(jobProgress[j]) \in Terminal
                  /\ StatusOf(jobFiles[j]) # StatusOf(jobProgress[j])))
    /\ [][\A j \in Jobs :
            /\ StatusOf(jobFiles[j]) \in Terminal
                 => StatusOf(jobFiles[j])' = StatusOf(jobFiles[j])
            /\ StatusOf(jobProgress[j]) \in Terminal
                 => StatusOf(jobProgress[j])' = StatusOf(jobProgress[j])]_vars

\* a job whose saveJob of the result threw: tracker and file both failed
StatusLifecycleWitness ==
    \E j \in Jobs :
        /\ pc[j] = "done"
        /\ wroteStore[j] /\ err[j] = "write failed"
        /\ StatusOf(jobFiles[j]) = "failed"
        /\ StatusOf(jobProgress[j]) = "failed"

\* C4 (as claimed): every job whose background task and failure handler have
\* ended has persisted status completed or failed, and when the pipeline threw
\* the status is failed with the exception's message in the error field.
EveryJobEndsTerminal ==
    \A j \in Jobs :
        Finished(j) =>
            /\ StatusOf(jobFiles[j]) \in Terminal
            /\ err[j] # None =>
                 /\ jobFiles[j].status = "failed"
                 /\ jobFiles[j].error = err[j]

FatalCauses == {"No references were extracted from the text", "pdf-parse failed"}

\* C5 (as claimed): a job whose extraction yielded no valid reference, or whose
\* page-text collaborator threw, is never completed in either view, writes
\* nothing to the store, and ends failed with error populated.
FatalCausesEndFailed ==
    \A j \in Jobs :
        err[j] \in FatalCauses =>
            /\ StatusOf(jobFiles[j]) # "completed"
            /\ StatusOf(jobProgress[j]) # "completed"
            /\ ~ wroteStore[j]
            /\ Finished(j) =>
                 /\ jobFiles[j].status = "failed"
                 /\ jobFiles[j].error = err[j]

\* C6: a persisted job with status completed has progress 100, the list the
\* model extraction returned, the total the merge of that list returned, and
\* the merged table had been written to the store by then.
CompletedJobIsFinal ==
    \A j \in Jobs :
        StatusOf(jobFiles[j]) = "completed" =>
            /\ jobFiles[j].progress = 100
            /\ jobFiles[j].extractedReferences = references[j]
            /\ jobFiles[j].totalReferences = merged[j].total
            /\ merged[j].added + merged[j].duplicates = Len(references[j])
            /\ wroteStore[j]

\* a completed job whose total differs from the number it extracted
CompletedJobIsFinalWitness ==
    \E j \in Jobs :
        /\ StatusOf(jobFiles[j]) = "completed"
        /\ jobFiles[j].totalReferences # Len(jobFiles[j].extractedReferences)

\* C7 (as claimed): whatever happens, a submission that reached startExtraction
\* is answered with a jobId; startExtraction never rejects.
SubmissionNeverThrows ==
    \A j \in Jobs :
        /\ pc[j] # "threw"
        /\ upload[j] \in {"garbage", "pdf"} /\ reply[j] # None
             => reply[j] = "jobId"

InputErrors == {"nofile", "badform", "garbage"}

\* C8 (as claimed): a submission with a missing, empty or unparseable document
\* has no persisted job record and is not answered with a jobId.
InputErrorsRejectedBeforeJob ==
    \A j \in Jobs :
        upload[j] \in InputErrors =>
            /\ jobFiles[j] = Absent
            /\ reply[j] # "jobId"

\* the records of table that a list record is compared with
sameKey(r, s) == toLowerCase(r.citationKey) = toLowerCase(s.citationKey)

sameRaw(r, s) == normalizeText(r.referenceRaw) = normalizeText(s.referenceRaw)

\* a match as C9 words it
MatchesAsClaimed(r, s) == sameKey(r, s) \/ sameRaw(r, s)

\* a match between values that are present
MatchesPresent(r, s) ==
    \/ r.citationKey # <<>> /\ s.citationKey # <<>> /\ sameKey(r, s)
    \/ r.referenceRaw # <<>> /\ s.referenceRaw # <<>> /\ sameRaw(r, s)

Matches(present, r, s) ==
    IF present THEN MatchesPresent(r, s) ELSE MatchesAsClaimed(r, s)

\* the table with every record of list appended, in order, that matches no
\* record before it in the table
RECURSIVE Deduplicated(_, _, _)
Deduplicated(present, table, list) ==
    IF list = <<>> THEN table
    ELSE IF \E i \in 1..Len(table) : Matches(present, Head(list), table[i])
         THEN Deduplicated(present, table, Tail(list))
         ELSE Deduplicated(present, Append(table, Head(list)), Tail(list))

MergeContract(present) ==
    \A c \in 1..Len(calls) :
        LET S == Len(calls[c].before)
            N == Len(newReferences)
            res == calls[c].result
        IN  /\ res.added + res.duplicates = N
            /\ res.total = S + res.added
            /\ res.total = Len(res.table)
            /\ SubSeq(res.table, 1, S) = calls[c].before
            /\ res.table = Deduplicated(present, calls[c].before, newReferences)

\* C9 (as claimed): added + duplicates = N, total = S + added, the stored
\* records are kept in place, and a record is a duplicate exactly when its
\* citationKey (case-insensitively) or its normalized referenceRaw equals that
\* of a stored record or of an earlier non-duplicate of the list.
MergeContractAsClaimed == MergeContract(FALSE)

\* C9 (amended): the same, where a referenceRaw (and a citationKey) matches
\* only when it is non-empty on both sides.
MergeContractPresent == MergeContract(TRUE)

\* a call onto a non-empty table that both skipped and appended a record
MergeContractWitness ==
    \E c \in 1..Len(calls) :
        /\ calls[c].before # <<>>
        /\ calls[c].result.added > 0
        /\ calls[c].result.duplicates > 0

NoneInStore(table, list) ==
    \A i \in 1..Len(list) : \A k \in 1..Len(table) :
        ~ MatchesPresent(list[i], table[k])

\* C10: of two calls in a row with the same list the second adds nothing,
\* counts all N records as duplicates and leaves the table and the total as
\* the first call left them; the first adds at least one record when no
\* record of the list was in the table.
MergeIdempotent ==
    /\ Len(calls) >= 1 /\ NoneInStore(calls[1].before, newReferences)
         => calls[1].result.added > 0
    /\ Len(calls) = 2 =>
         /\ calls[2].before = calls[1].result.table
         /\ calls[2].result.added = 0
         /\ calls[2].result.duplicates = Len(newReferences)
         /\ calls[2].result.table = calls[1].result.table
         /\ calls[2].result.total = calls[1].result.total

\* two calls in a row, onto a non-empty table, with a list of two records
\* that were not in the table and are duplicates of each other
MergeIdempotentWitness ==
    /\ Len(calls) = 2
    /\ calls[1].before # <<>>
    /\ NoneInStore(calls[1].before, newReferences)
    /\ Len(newReferences) = 2
    /\ calls[1].result.added = 1

\* C11: in the store shared by extraction merges, enhancement write-backs and
\* DELETE /master, started empty, no two records have citation keys that are
\* equal case-insensitively.
StoreKeysUnique ==
    \A p, q \in 1..Len(masterTable) :
        p # q => toLowerCase(masterTable[p].citationKey)
                   # toLowerCase(masterTable[q].citationKey)

\* two records in the store, written back by an enhancement run that found an
\* affiliation, after the store had been cleared
StoreKeysUniqueWitness ==
    /\ Len(masterTable) = 2
    /\ clearedAt > 0
    /\ \E e \in Runs : savedAt[<<"enhancement", e>>] = version
    /\ \E p \in 1..Len(masterTable) : masterTable[p].firstAuthorAffiliation # <<>>

\* C12: every record in the store has a non-empty title or a non-empty
\* firstAuthor.
StoredRecordsIdentified ==
    \A p \in 1..Len(masterTable) :
        masterTable[p].title # <<>> \/ masterTable[p].firstAuthor # <<>>

\* the store holds a record without author and a record without title, one of
\* them from a model answer whose other entry had neither and was dropped
StoredRecordsIdentifiedWitness ==
    /\ \E p \in 1..Len(masterTable) : masterTable[p].firstAuthor = <<>>
    /\ \E p \in 1..Len(masterTable) : masterTable[p].title = <<>>
    /\ \A j \in Jobs : xpc[j] = "completed"

\* the records a job's merge reported as added: the last `added` of its table
AddedBy(j) ==
    {xstats[j].table[p] :
        p \in (xstats[j].total - xstats[j].added + 1)..xstats[j].total}

\* the record is in the store, whatever affiliation it has been given since
InStore(r) ==
    \E p \in 1..Len(masterTable) :
        /\ masterTable[p].citationKey = r.citationKey
        /\ masterTable[p].firstAuthor = r.firstAuthor
        /\ masterTable[p].title = r.title

\* writer w loaded the store before job j saved, and saved after it
StaleOver(w, j) ==
    /\ loadedAt[w] > 0
    /\ loadedAt[w] < savedAt[<<"extraction", j>>]
    /\ savedAt[w] > savedAt[<<"extraction", j>>]

\* C13: the store is read and written without mutual exclusion, and an update
\* is lost only by a stale overwrite: a record that a completed extraction job
\* reported as added is in the store, unless the store was cleared after the
\* job saved or a writer that had loaded before the job saved has saved since.
LostOnlyByStaleOverwrite ==
    \A j \in Jobs :
        xpc[j] = "completed" =>
            \A r \in AddedBy(j) :
                \/ InStore(r)
                \/ clearedAt > savedAt[<<"extraction", j>>]
                \/ \E w \in Writers \ {<<"extraction", j>>} : StaleOver(w, j)

\* an extraction job and an enhancement run both completed, the store never
\* cleared, the job's merge persisted between the run's load and the run's
\* save, and a record the job reported as added is not in the store
LostUpdateWitness ==
    \E j \in Jobs, e \in Runs :
        /\ xpc[j] = "completed"
        /\ enhancementJobs[e] # Absent /\ enhancementJobs[e].status = "completed"
        /\ clearedAt = 0
        /\ StaleOver(<<"enhancement", e>>, j)
        /\ savedAt[<<"enhancement", e>>] = version
        /\ \E r \in AddedBy(j) : ~ InStore(r)

\* the same between two extraction jobs
LostUpdateBetweenExtractions ==
    \E j, k \in Jobs :
        /\ xpc[j] = "completed" /\ xpc[k] = "completed"
        /\ clearedAt = 0
        /\ \A e \in Runs : epc[e] = "idle"
        /\ StaleOver(<<"extraction", k>>, j)
        /\ \E r \in AddedBy(j) : ~ InStore(r)

\* C14 (as claimed): at most one enhancement run is processing and at most one
\* affiliation lookup is in flight at any time.
OneEnhancementAtATime ==
    /\ Cardinality({e \in Runs : enhancementJobs[e] # Absent
                                  /\ enhancementJobs[e].status = "processing"}) <= 1
    /\ Cardinality({e \in Runs : epc[e] = "findAffiliation"}) <= 1

\* an entry that C15 says is dropped: no citation key under either name,
\* 'unknown' in the key, or neither title nor first author
DroppedAsClaimed(entry) ==
    \/ Or(entry.citationKey, entry.key) = <<>>
    \/ Includes(toLowerCase(Or(entry.citationKey, entry.key)), unknown)
    \/ (entry.title = <<>> /\ Or(entry.firstAuthor, entry.first_author) = <<>>)

\* the entries C15 says are returned, mapped, in the order of the answer
KeptAsClaimed(referencesArray) ==
    LET kept == SelectSeq([p \in 1..Len(referencesArray) |-> p],
                          LAMBDA p : ~ DroppedAsClaimed(referencesArray[p]))
    IN  [q \in 1..Len(kept) |-> mapReference(referencesArray[kept[q]], kept[q] - 1)]

\* C15 (as claimed): of the entries of a model answer, the call returns
\* exactly those that have a citationKey without 'unknown' in it and a title
\* or a firstAuthor.
FilterAsClaimed ==
    \A c \in 1..Len(modelCalls) :
        modelCalls[c].answer[1] = "parsed" =>
            modelCalls[c].returned = KeptAsClaimed(modelCalls[c].answer[2])

\* C16 (as claimed): with a client configured, a finished call of
\* extractAllReferencesWithLLM has called the model once for a text within the
\* limit and once per chunk of the split for a longer text.
OneCallPerChunk ==
    extracted # <<>> /\ openai =>
        Len(modelCalls) = IF fullText.length <= maxChars THEN 1
                          ELSE Len(chunksOf(fullText))

\* the lists the model calls returned, one after the other
RECURSIVE Concatenated(_)
Concatenated(returns) ==
    IF returns = <<>> THEN <<>>
    ELSE Head(returns).returned \o Concatenated(Tail(returns))

\* the records of list whose key repeats, case-insensitively, no earlier one
FirstOccurrences(list) ==
    LET firsts == SelectSeq([p \in 1..Len(list) |-> p],
            LAMBDA p : \A q \in 1..(p - 1) :
                toLowerCase(list[q].citationKey) # toLowerCase(list[p].citationKey))
    IN  [k \in 1..Len(firsts) |-> list[firsts[k]]]

HistoricalSkipped ==
    /\ resolveArgs # Absent
    /\ resolveArgs.authorName # <<>> /\ resolveArgs.paperTitle # <<>>
    /\ ~ parseInt(resolveArgs.year).nan
    /\ parseInt(resolveArgs.year).value < 1900
    => /\ tierLog = <<>>
       /\ rpc = "returned"
       /\ resolved = AffiliationResult(<<>>, "low", "skipped-historical")

AllTiers == <<"semantic-scholar", "perplexity", "openalex">>

ConfiguredTiers ==
    IF perplexityKey THEN AllTiers ELSE <<"semantic-scholar", "openalex">>

\* the tiers were queried in the given order, one at a time, each after the
\* one before it had missed; a hit is returned with its tier as source and
\* ends the call; a tier-3 hit comes after every tier of the order
TiersInOrder(order) ==
    /\ Len(tierLog) <= Len(order)
    /\ \A p \in 1..Len(tierLog) :
          /\ tierLog[p].tier = order[p]
          /\ p < Len(tierLog) =>
                tierLog[p].state = "returned" /\ tierLog[p].affiliation = <<>>
    /\ (tierLog # <<>> /\ tierLog[Len(tierLog)].state = "pending")
          <=> rpc \in {"semantic-scholar", "perplexity", "openalex"}
    /\ rpc \in {"semantic-scholar", "perplexity", "openalex"}
          => tierLog[Len(tierLog)].tier = rpc /\ resolved = Absent
    /\ \A p \in 1..Len(tierLog) :
          tierLog[p].affiliation # <<>> =>
              /\ rpc = "returned"
              /\ resolved.affiliation = tierLog[p].affiliation
              /\ resolved.source = tierLog[p].tier
    /\ resolved # Absent /\ resolved.affiliation # <<>> =>
          /\ tierLog # <<>>
          /\ tierLog[Len(tierLog)].affiliation = resolved.affiliation
    /\ resolved # Absent /\ resolved.affiliation # <<>>
         /\ resolved.source = "openalex" => Len(tierLog) = Len(order)

\* C19 (as claimed): the tiers are queried in the order 1, 2, 3, one at a
\* time, each only after every earlier tier has missed; the first hit is the
\* result; a tier-3 result comes after misses of tier 1 and tier 2.
TiersInOrderAsClaimed == TiersInOrder(AllTiers)

\* C19 (amended): the same over the tiers that are configured: tier 2 is
\* left out of the order when no credential is configured.
TiersInOrderConfigured == TiersInOrder(ConfiguredTiers)

\* a tier-3 hit after misses of tier 1 and tier 2
TiersInOrderWitness ==
    /\ resolved # Absent /\ resolved.affiliation # <<>>
    /\ resolved.source = "openalex"
    /\ Len(tierLog) = 3

\* C20: without a tier-2 credential no tier-2 request is made, the source is
\* never 'perplexity', and a tier-1 miss is followed by tier 3.
NoTier2WithoutKey ==
    ~ perplexityKey =>
        /\ rpc # "perplexity"
        /\ \A p \in 1..Len(tierLog) : tierLog[p].tier # "perplexity"
        /\ resolved # Absent => resolved.source # "perplexity"
        /\ Len(tierLog) >= 2 => tierLog[2].tier = "openalex"

\* no credential, tier 1 missed, tier 3 was asked and the call has returned
NoTier2WithoutKeyWitness ==
    /\ resolveArgs # Absent /\ ~ perplexityKey
    /\ rpc = "returned"
    /\ Len(tierLog) = 2
    /\ tierLog[1].affiliation = <<>>

Punctuation == {".", ",", "-", "'"}

\* lower case, punctuation stripped, whitespace collapsed
normalizedAsClaimed(name) ==
    Trim(CollapseSpaces(SelectSeq(toLowerCase(name), LAMBDA c : c \notin Punctuation)))

\* the name-matching rule over two normalized names
MatchRule(n1, n2) ==
    LET tokens1 == split(n1)
        tokens2 == split(n2)
    IN  \/ n1 = n2
        \/ Includes(n1, n2) \/ Includes(n2, n1)
        \/ /\ tokens1[Len(tokens1)] = tokens2[Len(tokens2)]
           /\ \/ tokens1[1] = <<>> \/ tokens2[1] = <<>>
              \/ tokens1[1][1] = tokens2[1][1]

JSmith == <<"J", ".", " ", "S", "m", "i", "t", "h">>

JohnSmith == <<"J", "o", "h", "n", " ", "S", "m", "i", "t", "h">>

JaneSmith == <<"J", "a", "n", "e", " ", "S", "m", "i", "t", "h">>

\* C23 (as claimed): authorsMatch returns true exactly when, after lower-casing,
\* stripping punctuation and collapsing whitespace, the names are equal, one
\* contains the other, or their last tokens are equal and their first-token
\* initials are equal or one name has no first token; so it returns true for
\* "J. Smith" and "John Smith".
AuthorsMatchAsClaimed ==
    matchArgs # Absent =>
        /\ matched[1] = MatchRule(normalizedAsClaimed(matchArgs.name1),
                                  normalizedAsClaimed(matchArgs.name2))
        /\ matchArgs = [name1 |-> JSmith, name2 |-> JohnSmith] => matched[1]

\* C24 (as claimed): authorsMatch("J. Smith", "Jane Smith") returns false.
InitialRejectsJane ==
    matchArgs = [name1 |-> JSmith, name2 |-> JaneSmith] => matched = <<FALSE>>

\* C24 (amended): authorsMatch("J. Smith", "Jane Smith") returns true: the
\* last tokens are equal and both first tokens begin with j.
InitialMatchesJane ==
    matchArgs = [name1 |-> JSmith, name2 |-> JaneSmith] => matched = <<TRUE>>

\* the call authorsMatch("J. Smith", "Jane Smith") has returned
InitialMatchesJaneWitness ==
    /\ matchArgs = [name1 |-> JSmith, name2 |-> JaneSmith]
    /\ matched # <<>>

\* C25 (as claimed): authorsMatch("Wiener, N.", "N. Wiener") returns true.
InvertedNameMatches ==
    matchArgs = [name1 |-> <<"W", "i", "e", "n", "e", "r", ",", " ", "N", ".">>,
                 name2 |-> <<"N", ".", " ", "W", "i", "e", "n", "e", "r">>]
        => matched = <<TRUE>>

\* C21: a service error in a tier (a response that is not ok, or a thrown
\* network error) is a miss of that tier: the call goes on to the next
\* configured tier, or returns the final miss after the last one, and it
\* always returns a result.
ServiceErrorIsMiss ==
    /\ \A p \in 1..Len(tierLog) :
          tierLog[p].state = "returned" /\ tierLog[p].response \in ServiceErrors =>
              /\ tierLog[p].affiliation = <<>>
              /\ IF tierAfter(tierLog[p].tier) = "none"
                 THEN /\ rpc = "returned"
                      /\ resolved = AffiliationResult(<<>>, "low", "openalex")
                 ELSE /\ Len(tierLog) > p
                      /\ tierLog[p + 1].tier = tierAfter(tierLog[p].tier)
    /\ rpc = "returned" =>
          /\ resolved # Absent
          /\ resolved.source \in {"semantic-scholar", "perplexity", "openalex",
                                  "skipped-historical"}

\* tier 1 threw, tier 2 answered with an error status, tier 3 found the
\* affiliation
ServiceErrorIsMissWitness ==
    /\ Len(tierLog) = 3
    /\ tierLog[1].response = Response("throws", <<>>)
    /\ tierLog[2].response = Response("non-2xx", <<>>)
    /\ resolved # Absent /\ resolved.affiliation # <<>>

\* the authorships of the top result that tier 3 was answered with
TopAuthorships(entry) == entry.response.body[1].authorships

EnhancementWriter(e) == <<"enhancement", e>>

\* the records a run has to resolve: the positions, in store order, of the
\* records that had a first author and no affiliation when the run loaded
WorkingSetAtLoad(e) ==
    SelectSeq([p \in 1..Len(eloaded[e]) |-> p],
              LAMBDA p : /\ eloaded[e][p].firstAuthor # <<>>
                         /\ eloaded[e][p].firstAuthorAffiliation = <<>>)

\* the run has loaded the store and is past the selection of the working set
PastLoad(e) == epc[e] \in {"findAffiliation", "saveMasterTable", "done"}

\* C26: the findAffiliation calls of a run are, in store order and once each,
\* the records that had a first author and no affiliation when the run
\* loaded the store; a run that is past its loop has called it for all of
\* them, and for no other record.
ResolverCalledForWorkingSet ==
    \A e \in Runs :
        LET expected == WorkingSetAtLoad(e)
            called == [p \in 1..Len(lookups[e]) |-> lookups[e][p].position]
        IN  /\ Len(called) <= Len(expected)
            /\ \A p \in 1..Len(called) : called[p] = expected[p]
            /\ epc[e] = "findAffiliation" =>
                  /\ Len(called) = ei[e] + 1
                  /\ lookups[e][Len(called)].state = "pending"
            /\ epc[e] \in {"saveMasterTable", "done"} => called = expected

\* a finished run over a store of which it had to skip a record
ResolverCalledForWorkingSetWitness ==
    \E e \in Runs :
        /\ epc[e] = "done" /\ enhancementJobs[e].status = "completed"
        /\ Len(lookups[e]) >= 1
        /\ Len(eloaded[e]) > Len(lookups[e])
        /\ \E p \in 1..Len(eloaded[e]) : eloaded[e][p].firstAuthor = <<>>

\* C27 (as claimed): a run that finds no record to resolve when it loads the
\* store, the empty store included, ends completed at progress 100, without
\* a findAffiliation call and without a store write.
EmptyWorkingSetCompletes ==
    \A e \in Runs :
        PastLoad(e) /\ WorkingSetAtLoad(e) = <<>> =>
            /\ enhancementJobs[e].status = "completed"
            /\ enhancementJobs[e].progress = 100
            /\ lookups[e] = <<>>
            /\ savedAt[EnhancementWriter(e)] = 0

\* no other writer wrote between the load and the save of run e, and the
\* store is as the run saved it
SavedUndisturbed(e) ==
    /\ savedAt[EnhancementWriter(e)] = loadedAt[EnhancementWriter(e)] + 1
    /\ version = savedAt[EnhancementWriter(e)]

\* C28: after a completed run that no other writer interleaved with, every
\* record for which findAffiliation returned an affiliation has that
\* affiliation in the store and every other record is as it was loaded;
\* enhancedReferences counts the affiliations returned and
\* processedReferences the working set.
EnhancementPersisted ==
    \A e \in Runs :
        /\ enhancementJobs[e] # Absent
        /\ enhancementJobs[e].status = "completed"
        /\ SavedUndisturbed(e)
        => LET found == {p \in 1..Len(lookups[e]) : lookups[e][p].affiliation # <<>>}
           IN  /\ Len(masterTable) = Len(eloaded[e])
               /\ \A p \in found :
                     masterTable[lookups[e][p].position] =
                        [eloaded[e][lookups[e][p].position] EXCEPT
                            !.firstAuthorAffiliation = lookups[e][p].affiliation]
               /\ \A q \in 1..Len(masterTable) :
                     (\A p \in found : lookups[e][p].position # q) =>
                         masterTable[q] = eloaded[e][q]
               /\ enhancementJobs[e].enhancedReferences = Cardinality(found)
               /\ enhancementJobs[e].processedReferences = Len(WorkingSetAtLoad(e))
               /\ enhancementJobs[e].totalReferences = Len(eloaded[e])

\* a completed, undisturbed run over two records, one of them resolved: the
\* second of the store
EnhancementPersistedWitness ==
    \E e \in Runs :
        /\ enhancementJobs[e] # Absent
        /\ enhancementJobs[e].status = "completed"
        /\ SavedUndisturbed(e)
        /\ enhancementJobs[e].enhancedReferences = 1
        /\ enhancementJobs[e].processedReferences = 2
        /\ masterTable[2].firstAuthorAffiliation = <<"M">>

\* C29: a run writes the store at most once, and only after its last lookup
\* has returned and while its job is still processing; it has not written
\* while a lookup is pending, nor when it failed at the load, and a run that
\* completed after lookups has written.
SavedOnceAfterLoop ==
    /\ [][\A e \in Runs :
            savedAt'[EnhancementWriter(e)] # savedAt[EnhancementWriter(e)] =>
                /\ savedAt[EnhancementWriter(e)] = 0
                /\ epc[e] = "saveMasterTable"
                /\ lookups[e] # <<>>
                /\ \A p \in 1..Len(lookups[e]) : lookups[e][p].state = "returned"
                /\ Len(lookups[e]) = Len(WorkingSetAtLoad(e))
                /\ enhancementJobs[e].status = "processing"
                /\ masterTable' = ereferences[e]]_vars
    /\ [](\A e \in Runs :
            /\ epc[e] \in {"loadMasterTable", "findAffiliation", "saveMasterTable"} =>
                  savedAt[EnhancementWriter(e)] = 0
            /\ PastLoad(e) /\ lookups[e] = <<>> => savedAt[EnhancementWriter(e)] = 0
            /\ PastLoad(e) /\ enhancementJobs[e].status = "completed"
                 /\ lookups[e] # <<>> => savedAt[EnhancementWriter(e)] # 0)

\* a run that completed after two lookups and one write
SavedOnceAfterLoopWitness ==
    \E e \in Runs :
        /\ epc[e] = "done" /\ enhancementJobs[e].status = "completed"
        /\ Len(lookups[e]) = 2
        /\ savedAt[EnhancementWriter(e)] # 0

RunFailures == {"No references found in master table", "write failed", "export failed"}

\* C30: startEnhancement registers a processing job and returns; a run that
\* ends at the load or at the save without completing ends failed, with the
\* message of the exception as error and with completedAt set; no job fails
\* during the lookups, and a failed job stays as it is.
EnhancementFailsOnlyOutsideLookups ==
    /\ [][\A e \in Runs :
            /\ epc[e] = "idle" /\ epc'[e] # "idle" =>
                  enhancementJobs'[e] = InitialEnhancementJob
            /\ epc[e] # "idle" /\ enhancementJobs[e].status = "failed" =>
                  enhancementJobs'[e] = enhancementJobs[e]
            /\ epc[e] # "idle" /\ enhancementJobs[e].status # "failed"
                 /\ enhancementJobs'[e].status = "failed" =>
                  /\ epc[e] \in {"loadMasterTable", "saveMasterTable"}
                  /\ enhancementJobs'[e].error =
                        IF epc[e] = "loadMasterTable"
                        THEN "No references found in master table"
                        ELSE IF masterTable' = masterTable /\ version' = version
                             THEN "write failed" ELSE "export failed"
                  /\ enhancementJobs'[e].completedAt = "set"
            /\ epc[e] # "done" /\ epc'[e] = "done" =>
                  enhancementJobs'[e].status \in {"completed", "failed"}]_vars
    /\ [](\A e \in Runs :
            epc[e] # "idle" =>
                /\ enhancementJobs[e].status = "processing" <=> epc[e] # "done"
                /\ enhancementJobs[e].status = "failed" =>
                      /\ enhancementJobs[e].error \in RunFailures
                      /\ enhancementJobs[e].completedAt = "set"
                /\ enhancementJobs[e].status # "failed" =>
                      enhancementJobs[e].error = None)

\* one run failed at the save after its lookups, another at the load
EnhancementFailsOnlyOutsideLookupsWitness ==
    \E e, f \in Runs :
        /\ epc[e] = "done" /\ enhancementJobs[e].status = "failed"
        /\ enhancementJobs[e].error = "write failed"
        /\ lookups[e] # <<>>
        /\ epc[f] = "done" /\ enhancementJobs[f].status = "failed"
        /\ enhancementJobs[f].error = "No references found in master table"

\* C31: the collection a run holds, and writes, differs from the collection
\* it loaded only in the firstAuthorAffiliation of working-set records for
\* which findAffiliation returned an affiliation: same records, same order,
\* no other field changed, and a record that had an affiliation is as loaded.
EnhancementWritesOnlyAffiliations ==
    \A e \in Runs :
        PastLoad(e) =>
            /\ Len(ereferences[e]) = Len(eloaded[e])
            /\ \A q \in 1..Len(eloaded[e]) :
                  /\ [ereferences[e][q] EXCEPT !.firstAuthorAffiliation =
                          eloaded[e][q].firstAuthorAffiliation] = eloaded[e][q]
                  /\ eloaded[e][q].firstAuthorAffiliation # <<>> =>
                        ereferences[e][q] = eloaded[e][q]
                  /\ ereferences[e][q] # eloaded[e][q] =>
                        \E p \in 1..Len(lookups[e]) :
                            /\ lookups[e][p].position = q
                            /\ WorkingSetAtLoad(e)[p] = q
                            /\ lookups[e][p].affiliation # <<>>
                            /\ lookups[e][p].affiliation =
                                  ereferences[e][q].firstAuthorAffiliation
            /\ savedAt[EnhancementWriter(e)] # 0
                 /\ version = savedAt[EnhancementWriter(e)] =>
                  masterTable = ereferences[e]

\* one run wrote a collection with a new affiliation, and a later run loaded
\* that record with its affiliation and wrote the collection back
EnhancementWritesOnlyAffiliationsWitness ==
    \E e, f \in Runs :
        /\ savedAt[EnhancementWriter(e)] # 0
        /\ \E q \in 1..Len(eloaded[e]) : ereferences[e][q] # eloaded[e][q]
        /\ savedAt[EnhancementWriter(f)] > savedAt[EnhancementWriter(e)]
        /\ \E q \in 1..Len(eloaded[f]) : eloaded[f][q].firstAuthorAffiliation # <<>>

\* C38: for every job, 0 <= enhancedReferences <= processedReferences <= size
\* of the working set <= totalReferences and 0 <= progress <= 100 (the
\* working set being empty until the store is loaded), and
\* processedReferences, enhancedReferences and progress never decrease.
EnhancementCountersOrdered ==
    /\ [](\A e \in Runs :
            epc[e] # "idle" =>
                /\ 0 <= enhancementJobs[e].enhancedReferences
                /\ enhancementJobs[e].enhancedReferences
                      <= enhancementJobs[e].processedReferences
                /\ enhancementJobs[e].processedReferences
                      <= Len(WorkingSetAtLoad(e))
                /\ Len(WorkingSetAtLoad(e)) <= enhancementJobs[e].totalReferences
                /\ 0 <= enhancementJobs[e].progress
                /\ enhancementJobs[e].progress <= 100)
    /\ [][\A e \in Runs :
            epc[e] # "idle" =>
                /\ enhancementJobs'[e].processedReferences
                      >= enhancementJobs[e].processedReferences
                /\ enhancementJobs'[e].enhancedReferences
                      >= enhancementJobs[e].enhancedReferences
                /\ enhancementJobs'[e].progress >= enhancementJobs[e].progress]_vars

\* a run half way through a working set of two, the first record resolved
EnhancementCountersOrderedWitness ==
    \E e \in Runs :
        /\ epc[e] = "findAffiliation"
        /\ enhancementJobs[e].processedReferences = 1
        /\ enhancementJobs[e].enhancedReferences = 1
        /\ enhancementJobs[e].progress = 50
        /\ enhancementJobs[e].totalReferences = 2

\* C39: once the background task and, after a failure, the rejection handler
\* have finished (every saveJob of the handler having written, the job's
\* tracker entry present), getProgress and getResult report the same
\* terminal status for the job.
TrackerAgreesWithJobFile ==
    \A j \in Jobs :
        pc[j] = "done" /\ getProgress(j) # Absent =>
            /\ getResult(j) # Absent
            /\ getProgress(j).status \in Terminal
            /\ getResult(j).status = getProgress(j).status

\* one job ended completed and another failed, each in tracker and file
TrackerAgreesWithJobFileWitness ==
    \E i, j \in Jobs :
        /\ pc[i] = "done" /\ pc[j] = "done"
        /\ getProgress(i).status = "completed"
        /\ getResult(i).status = "completed"
        /\ getProgress(j).status = "failed"
        /\ getResult(j).status = "failed"

\* the position in the text at which chunk i of chunks starts
RECURSIVE startOf(_, _)
startOf(chunks, i) ==
    IF i = 1 THEN 0 ELSE startOf(chunks, i - 1) + chunks[i - 1].length

\* C40: for a text longer than the budget the chunk loop ends, every chunk is
\* non-empty, and the chunks are consecutive pieces of the text that start at
\* 0 and end at its length, so that their concatenation is the text.
ChunksPartitionText ==
    fullText # Absent /\ fullText.length > maxChars =>
        LET chunks == chunksOf(fullText)
        IN  /\ Len(chunks) >= 2
            /\ \A i \in 1..Len(chunks) :
                  /\ chunks[i].length > 0
                  /\ chunks[i] = substring(fullText, startOf(chunks, i),
                                           startOf(chunks, i) + chunks[i].length)
            /\ startOf(chunks, Len(chunks)) + chunks[Len(chunks)].length
                  = fullText.length
            /\ frames # <<>> => frames[1].chunks = chunks

\* a text cut at a paragraph break into three chunks, all sent to the model
ChunksPartitionTextWitness ==
    /\ fullText # Absent
    /\ fullText.length > maxChars
    /\ Len(chunksOf(fullText)) = 3
    /\ chunksOf(fullText)[1].length = 14800
    /\ Len(modelCalls) = 3
    /\ extracted # <<>>

\* C33: each split of a text longer than the budget is at a paragraph break
\* within 500 characters of the ideal split point (the chunk's start plus
\* the budget) whenever such a break exists, and at the ideal point only
\* when there is none.
SplitsAtParagraphBreaks ==
    frames # <<>> =>
        LET chunks == frames[1].chunks
        IN  \A i \in 1..(Len(chunks) - 1) :
                LET ideal == startOf(chunks, i) + maxChars
                    cut == startOf(chunks, i + 1)
                    near == {b \in fullText.breaks :
                                /\ b > ideal - paragraphWindow
                                /\ b < ideal + paragraphWindow}
                IN  IF near # {} THEN cut \in near ELSE cut = ideal

\* C37: for a non-empty target author, tier 3 returns an affiliation only
\* from an authorship that carries a non-empty author name matching the
\* target; an authorship whose name is absent or empty is never a match.
NamelessEntryNeverMatched ==
    \A p \in 1..Len(tierLog) :
        /\ tierLog[p].tier = "openalex"
        /\ tierLog[p].affiliation # <<>>
        /\ resolveArgs.authorName # <<>>
        => \E q \in 1..Len(TopAuthorships(tierLog[p])) :
              LET authorship == TopAuthorships(tierLog[p])[q]
              IN  /\ authorship.display_name # <<>>
                  /\ authorsMatch(resolveArgs.authorName, authorship.display_name)
                  /\ authorship.institutions # <<>>
                  /\ tierLog[p].affiliation =
                        affiliationText(authorship.institutions[1])

\* C32: a call of updateReference whose key matches no stored record without
\* regard to case returns false and writes nothing; a call whose key matches
\* returns true after writing the collection it loaded with the first
\* matching record replaced by the shallow merge of its fields with the
\* updates (a field named in the updates takes the update's value, every
\* other field its old value) and every other record as loaded.
UpdateMatches(refs, citationKey) ==
    {i \in 1..Len(refs) :
        toLowerCase(refs[i].citationKey) = toLowerCase(citationKey)}

UpdateReferenceContract ==
    /\ [](ureturned # <<>> /\ ureturned # <<"rejected">> =>
            LET hits == UpdateMatches(uloaded, updateArgs.citationKey)
            IN  IF hits = {}
                THEN ureturned = <<"false">> /\ ureferences = uloaded
                ELSE /\ ureturned = <<"true">>
                     /\ Len(ureferences) = Len(uloaded)
                     /\ \A i \in 1..Len(uloaded) :
                          IF i \in hits /\ \A k \in hits : i <= k
                          THEN /\ \A k \in 1..Len(updateArgs.updates) :
                                    \/ \E m \in (k + 1)..Len(updateArgs.updates) :
                                          updateArgs.updates[m][1]
                                              = updateArgs.updates[k][1]
                                    \/ ureferences[i][updateArgs.updates[k][1]]
                                          = updateArgs.updates[k][2]
                               /\ \A f \in DOMAIN uloaded[i] :
                                    \/ \E k \in 1..Len(updateArgs.updates) :
                                          updateArgs.updates[k][1] = f
                                    \/ ureferences[i][f] = uloaded[i][f]
                               /\ DOMAIN ureferences[i] =
                                    DOMAIN uloaded[i] \cup
                                    {updateArgs.updates[k][1] :
                                        k \in 1..Len(updateArgs.updates)}
                          ELSE ureferences[i] = uloaded[i])
    /\ [][/\ upc = "loadMasterTable" /\ upc' = "idle" =>
               ureturned' = <<"false">> /\ masterTable' = masterTable
          /\ ureturned' = <<"true">> /\ ureturned # <<"true">> =>
               upc = "saveMasterTable" /\ masterTable' = ureferences]_vars

\* a call with the key in another case added a field to the first of two
\* stored records and returned true
UpdateReferenceContractWitness ==
    /\ ureturned = <<"true">>
    /\ Len(uloaded) = 2
    /\ updateArgs.citationKey # uloaded[1].citationKey
    /\ "firstAuthorAffiliation" \notin DOMAIN uloaded[1]
    /\ masterTable = ureferences
    /\ "firstAuthorAffiliation" \in DOMAIN masterTable[1]
    /\ masterTable[1].firstAuthorAffiliation = <<"M">>
    /\ masterTable[2] = uloaded[2]

\* a call with a key of no stored record returned false on a non-empty store
UpdateReferenceNotFoundWitness ==
    /\ ureturned = <<"false">>
    /\ uloaded # <<>>
    /\ masterTable = uloaded

\* C35: every request a call sends to the tier-1 service, the title search
\* and each author-profile request, comes directly after a rate-limit
\* delay of its own.
EveryRequestAfterDelay ==
    \A i \in 1..Len(httpLog) :
        httpLog[i].kind \in {"search", "author"} =>
            i > 1 /\ httpLog[i - 1].kind = "delay"

\* the result of the search that the log entry at position i belongs to
PaperOf(i) == papers[httpLog[i].paper]

\* the target year and the year of paper are numbers more than 1 apart
OutsideWindow(paper) ==
    /\ ~ parseInt(scholarArgs.year).nan
    /\ paper.year # <<>>
    /\ Abs(parseInt(scholarArgs.year).value - paper.year[1]) > 1

\* C36: a result whose year differs from the target year by more than 1 is
\* skipped: no author profile is requested for it, and the affiliation tier 1
\* returns is the first one of the profile requested last, for an author of
\* a result that is not outside the window.
YearWindowRespected ==
    /\ \A i \in 1..Len(httpLog) :
          httpLog[i].kind = "author" => ~ OutsideWindow(PaperOf(i))
    /\ scholarResult # <<>> /\ scholarResult[1] # <<>> =>
          /\ httpLog[Len(httpLog)].kind = "author"
          /\ lookup = <<httpLog[Len(httpLog)].paper, httpLog[Len(httpLog)].author>>
          /\ ~ OutsideWindow(papers[lookup[1]])

\* the first result, two years off, lists the author and was skipped; the
\* second, one year off, gave the affiliation
YearWindowRespectedWitness ==
    /\ scholarResult = << <<"M", "I", "T">> >>
    /\ Len(papers) = 2
    /\ OutsideWindow(papers[1])
    /\ papers[1].authors = <<ScholarAuthor(JohnSmithName, <<"1">>)>>
    /\ papers[2].year = <<2021>>
    /\ Len(httpLog) = 3
    /\ httpLog[3] = HttpEvent("author", 2, 1)

\* the first bracketed array literal of a text: from the first "[" to the
\* first "]" after it
firstArrayLiteral(content) ==
    LET opens == {k \in 1..Len(content) : content[k] = "["}
        first == CHOOSE k \in opens : \A m \in opens : k <= m
        closes == {k \in 1..Len(content) : content[k] = "]" /\ k > first}
        close == CHOOSE k \in closes : \A m \in closes : k <= m
    IN  IF opens = {} THEN <<>>
        ELSE IF closes = {} THEN <<>>
        ELSE SubSeq(content, first, close)

\* the recovery of C34: <<entries>> from the text with the closing sequence
\* appended, else from the first bracketed array literal, else <<>>
RecoveredAsClaimed(content) ==
    LET fixed == JSONparse(Trim(content) \o <<"]", "}">>)
        literal == JSONparse(firstArrayLiteral(content))
    IN  IF fixed.ok THEN referencesArrayOf(fixed)
        ELSE IF literal.ok THEN <<literal.items>>
        ELSE <<>>

\* the model calls answered with a text that is not valid JSON
InvalidResponses ==
    {c \in 1..Len(modelCalls) :
        /\ modelCalls[c].answer[1] = "content"
        /\ ~ JSONparse(modelCalls[c].answer[2]).ok}

\* C34: a response that is not valid JSON is recovered from the text with
\* the closing sequence appended, else from its first bracketed array
\* literal, and the call then returns the recovered references; when
\* neither parses the call fails, and the extraction then hands no
\* reference to the job, which ends failed.
ResponseRecoveryAsClaimed ==
    /\ \A c \in InvalidResponses :
          LET recovered == RecoveredAsClaimed(modelCalls[c].answer[2])
          IN  IF recovered = <<>> THEN modelCalls[c].returned = <<>>
              ELSE modelCalls[c].returned = validReferences(recovered[1])
    /\ extracted # <<>> =>
          \A c \in InvalidResponses :
              RecoveredAsClaimed(modelCalls[c].answer[2]) = <<>> =>
                  extracted[1] = <<>>

====
